---- MODULE Spec2Model ----
(***************************************************************************)
(* Dispatch core of the logistics application: the greedy tour builder,    *)
(* requestTour, startTour and the stop transitions of                      *)
(* src/src/controllers/tours.controller.js, over the Tour and Demand       *)
(* collections.                                                            *)
(*                                                                         *)
(* Every handler is an async function; the handlers of concurrent HTTP     *)
(* requests interleave at their awaits.  One action of the model is one    *)
(* database operation of a handler together with the synchronous code      *)
(* that runs before it (since the previous await) and after it (up to the  *)
(* next database operation or the response).                               *)
(*                                                                         *)
(* Units: quantities are kg (integers); coordinates are integer degrees,   *)
(* all on one meridian, a component 0 being a falsy (missing) component;   *)
(* raw distances are metres, the stored distanceFromPrevKm and             *)
(* totalDistanceKm are hundredths of a km (what toFixed(2) keeps).         *)
(***************************************************************************)
EXTENDS Integers, Sequences, FiniteSets, TLC

\* ------------------------------------------------------------------ bounds
NumDemands == 2
NumDrivers == 2
NumProcs == 2
NumDates == 1
MaxTours == 2
MaxOps == 3

\* ------------------------------------------------------- program constants
DEFAULT_TRUCK_CAPACITY_KG == 3200
\* SMALL_TIRE_KG = 8.58 and MEDIUM_TIRE_KG = 59, in hundredths of a kg
SMALL_TIRE_KG == 858
MEDIUM_TIRE_KG == 5900
MAX_ITERATIONS == 100
PoolLimit == 200
DefaultMaxDailyTours == 3
DefaultMaxStopsPerTour == 8
\* R * PI / 180 with R = 6371 km: metres of great circle per degree of latitude
MetresPerDegree == 111195

Demands == 1..NumDemands
Drivers == 1..NumDrivers
Procs == 1..NumProcs
Dates == 1..NumDates

\* The meridian every coordinate of the model lies on.
Longitudes == {2}
Meridian == CHOOSE lng \in Longitudes : TRUE

TerminalStopStatuses == {"COMPLETED", "NOT_READY", "PARTIAL"}
ActiveTourStatuses == {"PLANNED", "IN_PROGRESS"}
\* The statuses of the pool with the released demands let in.
PoolStatusesWithNotReady == {"NEW", "CONFIRMED", "NOT_READY"}
\* status: { $in: ["NEW", "CONFIRMED"] }
PoolStatuses == {"NEW", "CONFIRMED"}
PoolEstados == {"EN_CURSO", "ASIGNADA", "EN_TRANSITO"}

VARIABLES
  demands,   \* the Demand collection: demand id -> document
  tours,     \* the Tour collection: sequence of documents, tour id = index
  procs,     \* the handler each request slot is running, with its locals
  resp,      \* the HTTP response sent by the latest step, if it sent one
  started,   \* how many requests have got past their first database operation
  users,     \* the User collection: user id -> document
  signed     \* how many refresh tokens have been signed

vars == <<demands, tours, procs, resp, started, users, signed>>

\* --------------------------------------------------------------- documents
\* The registered users, and a User document as register stores it before the
\* first login: active, no refresh token, version 0.
Users == {1}
NewUser == [active |-> TRUE, refreshTokens |-> {}, version |-> 0]

\* Demand.assigned when the field is not set ($unset, or never written).
NoAssigned == [driverId |-> 0, tourId |-> 0, date |-> 0]

\* The fleet: Driver documents with their populated Vehicle.  A capacityKg,
\* maxDailyTours or maxStopsPerTour of 0 is an unset field.
DriverDoc(drv) ==
  IF drv = 1
    THEN [active |-> TRUE, maxDailyTours |-> 1, maxStopsPerTour |-> 1,
          vehicle |-> [present |-> TRUE, active |-> TRUE, capacityKg |-> 0]]
    ELSE [active |-> TRUE, maxDailyTours |-> 0, maxStopsPerTour |-> 0,
          vehicle |-> [present |-> TRUE, active |-> TRUE, capacityKg |-> 1800]]

Abs(x) == IF x < 0 THEN -x ELSE x

Min(a, b) == IF a < b THEN a ELSE b

\* No number taken for a missing one.
FalsyNever(x) == FALSE

\* The test taking 0 for a value.
FalsyBelowZero(x) == x < 0

\* JavaScript falsiness of a number: 0 (and the missing value, modelled as 0).
Falsy(x) == x = 0

\* A distance that is Infinity in the code.
Infinity == -1

\* distanceKm: Infinity when a component is falsy, else the haversine distance,
\* which for two points of one meridian is R * |dLat| (in radians); in metres.
distanceKm(a, b) ==
  IF Falsy(a.lat) \/ Falsy(a.lng) \/ Falsy(b.lat) \/ Falsy(b.lng)
    THEN Infinity
    ELSE MetresPerDegree * Abs(b.lat - a.lat)

\* Number(x.toFixed(2)) of a distance in km: metres rounded to hundredths of a
\* km; Infinity stays Infinity.
ToFixed2(metres) == IF metres = Infinity THEN Infinity ELSE (metres + 5) \div 10

\* Math.round of hundredths of a kg to whole kg (non-negative argument).
RoundKg(hundredths) == (hundredths + 50) \div 100

\* ------------------------------------------------------- buildGreedyTour
\* The candidate filter without its capacity test.
ExceedsCapacityNever(d, remainingCapacity) == FALSE

\* The capacity test of the candidate filter: "skip if exceeds remaining".
ExceedsCapacity(d, remainingCapacity) == d.qtyEstimatedKg > remainingCapacity

\* score < bestScore, with score = dist / (1 + priority / 50); best = 0 stands
\* for bestScore = Infinity.  Cross-multiplied: the factors are positive.
ScoreLess(dist, priority, best) ==
  \/ best.idx = 0
  \/ dist * (50 + best.priority) < best.dist * (50 + priority)

\* One pass of pool.forEach over the candidates lo..hi, in order: the best
\* candidate so far, given the best found before lo.  The range is passed
\* through in halves, which visits the candidates in the order of the pool.
RECURSIVE FindBest(_, _, _, _, _, _, _)
FindBest(pool, used, remainingCapacity, currentPos, lo, hi, best) ==
  IF lo > hi THEN best
  ELSE IF lo < hi
    THEN LET mid == (lo + hi) \div 2
             first == FindBest(pool, used, remainingCapacity, currentPos, lo, mid, best)
         IN IF first.idx <= mid
              THEN FindBest(pool, used, remainingCapacity, currentPos, mid + 1, hi, first)
              ELSE first
  ELSE
    LET d == pool[lo]
        dist == distanceKm(currentPos, d.geo)
        skip == \/ lo \in used
                \/ ExceedsCapacity(d, remainingCapacity)
                \/ Falsy(d.geo.lat) \/ Falsy(d.geo.lng)
                \/ dist = Infinity
    IN IF ~skip /\ ScoreLess(dist, d.priority, best)
         THEN [idx |-> lo, dist |-> dist, priority |-> d.priority]
         ELSE best

NoBest == [idx |-> 0, dist |-> 0, priority |-> 0]

\* The loop condition without its iteration ceiling.
LoopGoesOnWhileCapacity(remainingCapacity, iteration) == remainingCapacity > 0

\* while (remainingCapacity > 0 && iteration < MAX_ITERATIONS)
LoopGoesOn(remainingCapacity, iteration) ==
  remainingCapacity > 0 /\ iteration < MAX_ITERATIONS

\* The locals of buildGreedyTour when the loop is entered; left is set once
\* the loop has been left, by its condition or by its break.
LoopEntry(start, capacityKg) ==
  [used |-> {}, remainingCapacity |-> capacityKg, currentPos |-> start,
   totalDistanceKm |-> 0, selected |-> <<>>, iteration |-> 0, left |-> FALSE]

\* One evaluation of the loop condition and, if it holds, one pass of the
\* loop body.
GreedyIteration(pool, st) ==
  IF ~LoopGoesOn(st.remainingCapacity, st.iteration)
    THEN [st EXCEPT !.left = TRUE]
  ELSE
    LET best == FindBest(pool, st.used, st.remainingCapacity, st.currentPos,
                         1, Len(pool), NoBest)
    IN IF best.idx = 0
         THEN [st EXCEPT !.iteration = @ + 1, !.left = TRUE]
         ELSE
           LET d == pool[best.idx]
               legDistance == distanceKm(st.currentPos, d.geo)
           IN [used |-> st.used \cup {best.idx},
               remainingCapacity |-> st.remainingCapacity - d.qtyEstimatedKg,
               currentPos |-> d.geo,
               totalDistanceKm |-> st.totalDistanceKm + legDistance,
               selected |-> Append(st.selected,
                                   [demand |-> d,
                                    distanceFromPrevKm |-> ToFixed2(legDistance)]),
               iteration |-> st.iteration + 1,
               left |-> FALSE]

\* The while loop of buildGreedyTour: the locals after at most n evaluations
\* of the loop condition, the evaluations done half by half.
RECURSIVE GreedyLoop(_, _, _)
GreedyLoop(pool, st, n) ==
  IF n = 0 \/ st.left THEN st
  ELSE IF n = 1 THEN GreedyIteration(pool, st)
  ELSE GreedyLoop(pool, GreedyLoop(pool, st, n \div 2), n - n \div 2)

\* Every pass of the loop body but the last uses one more candidate of the
\* pool, so the condition is evaluated Len(pool) + 1 times at the most.
Evaluations(pool) == Len(pool) + 1

\* The locals of buildGreedyTour when its loop ends.
LoopExit(pool, start, capacityKg) ==
  GreedyLoop(pool, LoopEntry(start, capacityKg), Evaluations(pool))

\* The value buildGreedyTour returns.
Returned(st) ==
  [remainingCapacityKg |-> st.remainingCapacity,
   totalDistanceKm |-> ToFixed2(st.totalDistanceKm),
   selected |-> st.selected]

buildGreedyTour(pool, start, capacityKg) ==
  Returned(LoopExit(pool, start, capacityKg))

\* { ...d, used: flag }: the fields of d and the flag.
WithUsed(d, flag) ==
  [id |-> d.id, qtyEstimatedKg |-> d.qtyEstimatedKg, geo |-> d.geo,
   priority |-> d.priority, used |-> flag]

\* The pool holding the caller's own objects.
PoolObjectShared(n, idx) == idx

\* demands.map((d) => ({ ...d, used: false })): the objects of the caller's
\* array are the objects 1..n of the heap, and the idx-th object of the pool is
\* a new one.
PoolObject(n, idx) == n + idx

\* The heap when buildGreedyTour returns: the caller's objects, the objects of
\* the pool, and best.used = true written on the pool objects selected.
HeapAtReturn(passed, st) ==
  LET n == Len(passed)
      allocated == [a \in 1..(2 * n) |->
                      IF a <= n THEN passed[a] ELSE WithUsed(passed[a - n], FALSE)]
      written == {PoolObject(n, idx) : idx \in st.used}
  IN [a \in 1..(2 * n) |->
        IF a \in written THEN WithUsed(allocated[a], TRUE) ELSE allocated[a]]

\* The caller's array when buildGreedyTour returns.
ArgumentAtReturn(passed, st) ==
  [a \in 1..Len(passed) |-> HeapAtReturn(passed, st)[a]]

\* ------------------------------------------------------------- Tour model
RECURSIVE SumSeq(_, _)
SumSeq(s, i) == IF i > Len(s) THEN 0 ELSE s[i] + SumSeq(s, i + 1)

PlannedKgs(t) == [i \in 1..Len(t.stops) |-> t.stops[i].plannedKg]
ActualKgs(t) == [i \in 1..Len(t.stops) |-> t.stops[i].actualKg]

\* The pre-save hook leaving the remaining capacity as the caller set it.
calculateTotalsKeepsRemaining(t) ==
  [t EXCEPT !.totalPlannedKg = SumSeq(PlannedKgs(t), 1),
            !.totalActualKg = SumSeq(ActualKgs(t), 1)]

\* TourSchema.methods.calculateTotals, run by the pre-save hook.
calculateTotals(t) ==
  LET planned == SumSeq(PlannedKgs(t), 1)
      actual == SumSeq(ActualKgs(t), 1)
  IN [t EXCEPT !.totalPlannedKg = planned,
               !.totalActualKg = actual,
               !.remainingCapacityKg = t.capacityKg - actual]

\* The order field taken from the 0-based array index as it is.
StopOrderZeroBased(idx) == idx - 1

\* The order field of the idx-th stop document (idx counted from 1): the
\* 0-based array index plus one.
StopOrder(idx) == (idx - 1) + 1

\* stopDocs of requestTour: one stop document per selected demand.
StopDocs(tourId, selected) ==
  [i \in 1..Len(selected) |->
     [id |-> <<tourId, i>>,
      demand |-> selected[i].demand.id,
      order |-> StopOrder(i),
      status |-> "SCHEDULED",
      plannedKg |-> selected[i].demand.qtyEstimatedKg,
      actualKg |-> 0,
      geo |-> selected[i].demand.geo,
      distanceFromPrevKm |-> selected[i].distanceFromPrevKm]]

\* The document Tour.create stores (the pre-save hook included).
NewTour(tourId, drv, date, capacityKg, built) ==
  calculateTotals(
    [driver |-> drv, date |-> date, status |-> "PLANNED",
     capacityKg |-> capacityKg,
     totalDistanceKm |-> built.totalDistanceKm,
     remainingCapacityKg |-> built.remainingCapacityKg,
     totalPlannedKg |-> 0, totalActualKg |-> 0,
     stops |-> StopDocs(tourId, built.selected)])

\* ------------------------------------------------------------ request slots
NoTour == [driver |-> 0, date |-> 0, status |-> "NONE", capacityKg |-> 0,
           totalDistanceKm |-> 0, remainingCapacityKg |-> 0,
           totalPlannedKg |-> 0, totalActualKg |-> 0, stops |-> <<>>]

NoBuilt == [remainingCapacityKg |-> 0, totalDistanceKm |-> 0, selected |-> <<>>]

NoTires == [hasSmall |-> FALSE, smallTires |-> 0, hasMedium |-> FALSE, mediumTires |-> 0]

\* A feed record as normalizeAlbRec reads it: kgSolicitadosEstimados,
\* fechaPeticion and fechaMaxima (days; NoDate when missing or unparsable).
NoDate == 0
NoItem == [kg |-> 0, requestedAt |-> NoDate, deadlineAt |-> NoDate]

Idle == [pc |-> "idle", op |-> "none", driver |-> 0, date |-> 0,
         start |-> [lat |-> 0, lng |-> 0], tourId |-> 0, stopId |-> <<0, 0>>,
         tires |-> NoTires, loaded |-> NoTour, built |-> NoBuilt,
         pool |-> <<>>, capacityKg |-> 0, iteration |-> 0, left |-> FALSE,
         argument |-> <<>>,
         item |-> NoItem, planDate |-> 0, priority |-> 0]

NoResp == [op |-> "none", code |-> 0, kind |-> "none", reused |-> FALSE, tourId |-> 0]

\* res.status(code).json(...): the handler of slot p ends with a response.
\* (The handlers of the tours, the plans and the sync, which end and go on by
\* the three steps below, do not touch the User collection.)
Respond(p, op, code, kind, reused, tourId) ==
  /\ resp' = [op |-> op, code |-> code, kind |-> kind,
              reused |-> reused, tourId |-> tourId]
  /\ procs' = [procs EXCEPT ![p] = Idle]
  /\ UNCHANGED <<started, users, signed>>

\* The handler of slot p goes on to its next await.
Goto(p, rec) ==
  /\ procs' = [procs EXCEPT ![p] = rec]
  /\ resp' = NoResp
  /\ UNCHANGED <<started, users, signed>>

\* The handler of slot p has done its first database operation and goes on.
Begin(p, rec) ==
  /\ started < MaxOps
  /\ procs' = [procs EXCEPT ![p] = rec]
  /\ resp' = NoResp
  /\ started' = started + 1
  /\ UNCHANGED <<users, signed>>

TourIds == 1..Len(tours)

\* ------------------------------------------------------------- requestTour
\* The filter with only PLANNED tours counted as open.
OpenTourStatusOnlyPlanned(status) == status = "PLANNED"

\* The filter with COMPLETED tours counted as open too.
OpenTourStatusAlsoCompleted(status) == status \in {"PLANNED", "IN_PROGRESS", "COMPLETED"}

\* Tour.findOne filter: an open tour of the driver on the day.
OpenTourStatus(status) == status \in ActiveTourStatuses

\* The open tours looked up only while the driver has tours left for the day.
ExistingToursBelowLimit(drv, date) ==
  {t \in TourIds : /\ tours[t].driver = drv
                   /\ tours[t].date = date
                   /\ tours[t].status \in ActiveTourStatuses
                   /\ Cardinality({u \in TourIds : tours[u].driver = drv /\ tours[u].date = date})
                        < (IF DriverDoc(drv).maxDailyTours = 0 THEN DefaultMaxDailyTours
                           ELSE DriverDoc(drv).maxDailyTours)}

ExistingTours(drv, date) ==
  {t \in TourIds : /\ tours[t].driver = drv
                   /\ tours[t].date = date
                   /\ OpenTourStatus(tours[t].status)}

\* The stored tours and the requestTour calls that may still store one.
ToursStoredOrComing ==
  Len(tours) + Cardinality({q \in Procs : procs[q].pc \in {"rt_count", "rt_find", "rt_create"}})

\* Validation, Driver.findById and Tour.findOne (the first database operation
\* that reads mutable data).
RequestTourFindOne(p, drv, lat, lng, date) ==
  /\ procs[p].pc = "idle"
  /\ UNCHANGED <<demands, tours>>
  /\ IF Falsy(lat) \/ Falsy(lng)
       THEN Respond(p, "requestTour", 400, "location_required", FALSE, 0)
     ELSE IF ~DriverDoc(drv).active
       THEN Respond(p, "requestTour", 404, "driver_not_found", FALSE, 0)
     ELSE IF ~DriverDoc(drv).vehicle.present
       THEN Respond(p, "requestTour", 400, "no_vehicle", FALSE, 0)
     ELSE IF ~DriverDoc(drv).vehicle.active
       THEN Respond(p, "requestTour", 400, "vehicle_inactive", FALSE, 0)
     ELSE IF ExistingTours(drv, date) # {}
       THEN \E t \in ExistingTours(drv, date) : Respond(p, "requestTour", 200, "tour", TRUE, t)
     ELSE /\ ToursStoredOrComing < MaxTours
          /\ Begin(p, [Idle EXCEPT !.pc = "rt_count", !.op = "requestTour",
                                   !.driver = drv, !.date = date,
                                   !.start = [lat |-> lat, lng |-> lng]])

MaxDailyToursOf(drv) ==
  IF DriverDoc(drv).maxDailyTours = 0 THEN DefaultMaxDailyTours
  ELSE DriverDoc(drv).maxDailyTours

\* The limit test letting one tour more through.
LimitReachedOffByOne(toursTodayCount, maxDailyTours) == toursTodayCount > maxDailyTours

\* toursTodayCount >= maxDailyTours
LimitReached(toursTodayCount, maxDailyTours) == toursTodayCount >= maxDailyTours

\* Tour.countDocuments: the tours of the driver on the day, of any status.
ToursToday(drv, date) ==
  {t \in TourIds : tours[t].driver = drv /\ tours[t].date = date}

\* Tour.countDocuments and the daily limit.
RequestTourCount(p) ==
  /\ procs[p].pc = "rt_count"
  /\ UNCHANGED <<demands, tours>>
  /\ LET toursTodayCount == Cardinality(ToursToday(procs[p].driver, procs[p].date))
     IN IF LimitReached(toursTodayCount, MaxDailyToursOf(procs[p].driver))
          THEN Respond(p, "requestTour", 200, "limit_reached", FALSE, 0)
          ELSE Goto(p, [procs[p] EXCEPT !.pc = "rt_find"])

\* The filter without its tests of the status and of the assignment.
EligibleWhateverLifecycle(d) ==
  /\ demands[d].estadoCod \in PoolEstados
  /\ demands[d].hasGeo
  /\ demands[d].qtyEstimatedKg > 0

\* The Demand.find filter of requestTour.
Eligible(d) ==
  /\ demands[d].estadoCod \in PoolEstados
  /\ demands[d].status \in PoolStatuses
  /\ demands[d].assigned.driverId = 0
  /\ demands[d].hasGeo
  /\ demands[d].qtyEstimatedKg > 0

\* sort({priority: -1, deadlineAt: 1}): a comes strictly before b.
SortsBefore(a, b) ==
  \/ demands[a].priority > demands[b].priority
  \/ /\ demands[a].priority = demands[b].priority
     /\ demands[a].deadlineAt < demands[b].deadlineAt

\* The orders the database may return the documents in: every arrangement the
\* sort keys allow (the order of documents with equal keys is not specified).
SortedPools(S) ==
  {s \in [1..Cardinality(S) -> S] :
     /\ \A i, j \in 1..Cardinality(S) : i # j => s[i] # s[j]
     /\ \A i, j \in 1..Cardinality(S) : i < j => ~SortsBefore(s[j], s[i])}

\* A lean() snapshot of a demand document.
Lean(d) == [id |-> d, qtyEstimatedKg |-> demands[d].qtyEstimatedKg,
            geo |-> demands[d].geo, priority |-> demands[d].priority]

CapacityOf(drv) ==
  IF DriverDoc(drv).vehicle.capacityKg = 0 THEN DEFAULT_TRUCK_CAPACITY_KG
  ELSE DriverDoc(drv).vehicle.capacityKg

\* The test of the build's result taking every result for a tour.
NothingSelectedNever(selected) == FALSE

\* if (!selected.length)
NothingSelected(selected) == Len(selected) = 0

\* Demand.find, then the synchronous build.
RequestTourFind(p) ==
  /\ procs[p].pc = "rt_find"
  /\ UNCHANGED <<demands, tours>>
  /\ \E order \in SortedPools({d \in Demands : Eligible(d)}) :
       LET found == [i \in 1..Min(Len(order), PoolLimit) |-> Lean(order[i])]
           built == buildGreedyTour(found, procs[p].start, CapacityOf(procs[p].driver))
       IN IF Len(found) = 0
            THEN Respond(p, "requestTour", 200, "no_eligible_demands", FALSE, 0)
          ELSE IF NothingSelected(built.selected)
            THEN Respond(p, "requestTour", 200, "no_demands_fit", FALSE, 0)
          ELSE Goto(p, [procs[p] EXCEPT !.pc = "rt_create", !.built = built])

\* Tour.create.
RequestTourCreate(p) ==
  /\ procs[p].pc = "rt_create"
  /\ LET tourId == Len(tours) + 1
     IN /\ tours' = Append(tours, NewTour(tourId, procs[p].driver, procs[p].date,
                                          CapacityOf(procs[p].driver), procs[p].built))
        /\ Goto(p, [procs[p] EXCEPT !.pc = "rt_update", !.tourId = tourId])
  /\ UNCHANGED demands

SelectedIds(built) == {built.selected[i].demand.id : i \in 1..Len(built.selected)}

\* Demand.updateMany: mark the selected demands as scheduled.
RequestTourUpdate(p) ==
  /\ procs[p].pc = "rt_update"
  /\ demands' = [d \in Demands |->
       IF d \in SelectedIds(procs[p].built)
         THEN [demands[d] EXCEPT !.status = "SCHEDULED",
                                 !.assigned = [driverId |-> procs[p].driver,
                                               tourId |-> procs[p].tourId,
                                               date |-> procs[p].date]]
         ELSE demands[d]]
  /\ Goto(p, [procs[p] EXCEPT !.pc = "rt_respond"])
  /\ UNCHANGED tours

\* Tour.findById(tour._id).populate and the 201 response.
RequestTourRespond(p) ==
  /\ procs[p].pc = "rt_respond"
  /\ Respond(p, "requestTour", 201, "tour", FALSE, procs[p].tourId)
  /\ UNCHANGED <<demands, tours>>

\* ------------------------------------------------------------- tour.save()
\* A field of the stored document after save(): save() sends the paths whose
\* value differs from the value loaded, and leaves every other stored path alone.
Saved(stored, loaded, local) == IF local # loaded THEN local ELSE stored

SavedStop(stored, loaded, local) ==
  [stored EXCEPT !.status = Saved(stored.status, loaded.status, local.status),
                 !.actualKg = Saved(stored.actualKg, loaded.actualKg, local.actualKg)]

\* tour.save(): the pre-save hook recomputes the totals of the in-memory
\* document, then the modified paths are written to the stored document.
SaveTour(stored, loaded, edited) ==
  LET local == calculateTotals(edited)
  IN [stored EXCEPT
        !.status = Saved(stored.status, loaded.status, local.status),
        !.totalPlannedKg = Saved(stored.totalPlannedKg, loaded.totalPlannedKg,
                                 local.totalPlannedKg),
        !.totalActualKg = Saved(stored.totalActualKg, loaded.totalActualKg,
                                local.totalActualKg),
        !.remainingCapacityKg = Saved(stored.remainingCapacityKg,
                                      loaded.remainingCapacityKg,
                                      local.remainingCapacityKg),
        !.stops = [i \in 1..Len(stored.stops) |->
                     SavedStop(stored.stops[i], loaded.stops[i], local.stops[i])]]

\* ---------------------------------------------------------------- startTour
\* The status check letting a tour that is under way start again.
CanStartUnlessCompleted(status) == status \in {"PLANNED", "IN_PROGRESS"}

\* The status check of startTour: tour.status !== "PLANNED" is refused.
CanStart(status) == status = "PLANNED"

\* Tour.findById and the status check.
StartTourLoad(p, tourId) ==
  /\ procs[p].pc = "idle"
  /\ UNCHANGED <<demands, tours>>
  /\ IF tourId \notin TourIds
       THEN Respond(p, "startTour", 404, "tour_not_found", FALSE, 0)
     ELSE IF ~CanStart(tours[tourId].status)
       THEN Respond(p, "startTour", 400, "cannot_start", FALSE, tourId)
     ELSE Begin(p, [Idle EXCEPT !.pc = "start_save", !.op = "startTour",
                                  !.tourId = tourId, !.loaded = tours[tourId]])

\* tour.status = "IN_PROGRESS"; tour.save().
StartTourSave(p) ==
  /\ procs[p].pc = "start_save"
  /\ tours' = [tours EXCEPT ![procs[p].tourId] =
                 SaveTour(@, procs[p].loaded,
                          [procs[p].loaded EXCEPT !.status = "IN_PROGRESS"])]
  /\ Respond(p, "startTour", 200, "started", FALSE, procs[p].tourId)
  /\ UNCHANGED demands

\* ----------------------------------------------------------- stop transitions
StopOps == {"completeStop", "partialStop", "notReadyStop"}

\* The stop looked up by its position in the tour instead of by its id.
StopIndexByPosition(t, stopId) ==
  IF stopId[2] \in 1..Len(t.stops) THEN stopId[2] ELSE 0

\* tour.stops.id(stopId): the index of the stop, 0 when the tour has none.
StopIndex(t, stopId) ==
  IF \E i \in 1..Len(t.stops) : t.stops[i].id = stopId
    THEN CHOOSE i \in 1..Len(t.stops) : t.stops[i].id = stopId
    ELSE 0

\* actualKg = Math.round(smallTires * SMALL_TIRE_KG + mediumTires * MEDIUM_TIRE_KG)
ActualKg(tires) ==
  RoundKg(tires.smallTires * SMALL_TIRE_KG + tires.mediumTires * MEDIUM_TIRE_KG)

\* The status a stop transition writes on its stop.
StopStatusOf(op) ==
  CASE op = "completeStop" -> "COMPLETED"
    [] op = "partialStop" -> "PARTIAL"
    [] op = "notReadyStop" -> "NOT_READY"

\* allDone with only COMPLETED counted as done.
AllDoneOnlyCompleted(t) ==
  \A i \in 1..Len(t.stops) : t.stops[i].status = "COMPLETED"

\* allDone: every stop of the in-memory tour is done.
AllDone(t) ==
  \A i \in 1..Len(t.stops) : t.stops[i].status \in TerminalStopStatuses

\* A stop transition that leaves the recomputed tour status alone while stops
\* remain.
DerivedStatusKeepsLoaded(t) == IF AllDone(t) THEN "COMPLETED" ELSE t.status

DerivedStatus(t) == IF AllDone(t) THEN "COMPLETED" ELSE "IN_PROGRESS"

\* The in-memory tour of a stop transition when it calls save(): its stop
\* updated, the tour status recomputed from the loaded stops.
EditedTour(op, loaded, stopId, tires) ==
  LET i == StopIndex(loaded, stopId)
      withStop ==
        [loaded EXCEPT !.stops[i] =
           IF op = "notReadyStop"
             THEN [@ EXCEPT !.status = StopStatusOf(op)]
             ELSE [@ EXCEPT !.status = StopStatusOf(op), !.actualKg = ActualKg(tires)]]
  IN [withStop EXCEPT !.status = DerivedStatus(withStop)]

\* The test of the counts taking every count.
NegativeCountNever(tires) == FALSE

\* smallTires < 0 || mediumTires < 0
NegativeCount(tires) == tires.smallTires < 0 \/ tires.mediumTires < 0

\* Validation, Tour.findById and tour.stops.id(stopId).
StopLoad(p, op, tourId, stopId, tires) ==
  /\ procs[p].pc = "idle"
  /\ UNCHANGED <<demands, tours>>
  /\ IF op # "notReadyStop" /\ (~tires.hasSmall \/ ~tires.hasMedium)
       THEN Respond(p, op, 400, "tires_required", FALSE, 0)
     ELSE IF op # "notReadyStop" /\ NegativeCount(tires)
       THEN Respond(p, op, 400, "tires_negative", FALSE, 0)
     ELSE IF tourId \notin TourIds
       THEN Respond(p, op, 404, "tour_not_found", FALSE, 0)
     ELSE IF StopIndex(tours[tourId], stopId) = 0
       THEN Respond(p, op, 404, "stop_not_found", FALSE, 0)
     ELSE Begin(p, [Idle EXCEPT !.pc = "st_demand", !.op = op,
                                  !.tourId = tourId, !.stopId = stopId,
                                  !.tires = tires, !.loaded = tours[tourId]])

\* The update with notReadyStop leaving the assignment in place.
DemandAfterKeepingAssignment(op, doc) == [doc EXCEPT !.status = StopStatusOf(op)]

\* The Demand.findByIdAndUpdate of a stop transition, applied to a document.
DemandAfter(op, doc) ==
  IF op = "notReadyStop"
    THEN [doc EXCEPT !.status = "NOT_READY", !.assigned = NoAssigned]
    ELSE [doc EXCEPT !.status = StopStatusOf(op)]

\* Demand.findByIdAndUpdate(stop.demand, ...).
StopUpdateDemand(p) ==
  /\ procs[p].pc = "st_demand"
  /\ LET i == StopIndex(procs[p].loaded, procs[p].stopId)
         d == procs[p].loaded.stops[i].demand
     IN demands' = [demands EXCEPT ![d] = DemandAfter(procs[p].op, @)]
  /\ Goto(p, [procs[p] EXCEPT !.pc = "st_save"])
  /\ UNCHANGED tours

\* tour.save() of a stop transition and the response.
StopSave(p) ==
  /\ procs[p].pc = "st_save"
  /\ tours' = [tours EXCEPT ![procs[p].tourId] =
                 SaveTour(@, procs[p].loaded,
                          EditedTour(procs[p].op, procs[p].loaded,
                                     procs[p].stopId, procs[p].tires))]
  /\ Respond(p, procs[p].op, 200, "stop_saved", FALSE, procs[p].tourId)
  /\ UNCHANGED demands

\* A request that dies at an await (the process crashes, or the database
\* operation rejects and the handler ends in next(err)): nothing it has
\* written is undone.
Crash(p) ==
  /\ procs[p].pc # "idle"
  /\ Respond(p, procs[p].op, 500, "error", FALSE, 0)
  /\ UNCHANGED <<demands, tours>>

\* ------------------------------------------------- buildGreedyTour, called
\* Every arrangement of the documents of S in a list.
Arrangements(S) ==
  {s \in [1..Cardinality(S) -> S] : \A i, j \in 1..Cardinality(S) : i # j => s[i] # s[j]}

\* buildGreedyTour(pool, start, capacityKg) is called and returns; the slot
\* keeps the arguments as they were at the call, the value returned, the last
\* values of the loop counter and of the loop's having been left, and the
\* array passed as it is at the return.
BuildGreedyTourOn(p, pool, start, capacityKg) ==
  /\ procs[p].pc = "idle"
  /\ Goto(p, [Idle EXCEPT !.pc = "built", !.op = "buildGreedyTour",
                          !.start = start, !.pool = pool,
                          !.capacityKg = capacityKg,
                          !.built = buildGreedyTour(pool, start, capacityKg),
                          !.iteration = LoopExit(pool, start, capacityKg).iteration,
                          !.left = LoopExit(pool, start, capacityKg).left,
                          !.argument = ArgumentAtReturn(pool, LoopExit(pool, start, capacityKg))])
  /\ UNCHANGED <<demands, tours>>

\* The call on the stored demands, in the given order.
BuildGreedyTourCall(p, order, start, capacityKg) ==
  BuildGreedyTourOn(p, [i \in 1..Len(order) |-> Lean(order[i])], start, capacityKg)

\* The call on a pool given as it is.
BuildGreedyTourCallLong(p, pool, start, capacityKg) ==
  BuildGreedyTourOn(p, pool, start, capacityKg)

\* The caller drops the result.
BuildGreedyTourDone(p) ==
  /\ procs[p].pc = "built"
  /\ Goto(p, Idle)
  /\ UNCHANGED <<demands, tours>>

\* ------------------------------------------------------- priority score
\* Scores saturate at 30 days and at 3000 kg; a record without a deadline
\* counts as 999 days away.
SaturationDays == 30
SaturationKg == 3000
NoDeadlineDays == 999

Max(a, b) == IF a > b THEN a ELSE b

\* ageDays: days since the request, 0 without a request date or for one in
\* the future.
AgeDays(planDate, requestedAt) ==
  IF requestedAt = NoDate THEN 0 ELSE Max(planDate - requestedAt, 0)

\* daysToDeadline: days left, 0 when overdue.
DaysToDeadline(planDate, deadlineAt) ==
  IF deadlineAt = NoDate THEN NoDeadlineDays ELSE Max(deadlineAt - planDate, 0)

\* ageScore = Math.min(ageDays / 30, 1), in thirtieths.
AgeScore(ageDays) == Min(ageDays, SaturationDays)

\* The deadline score without its "1 -": larger for the farther deadline.
DeadlineScoreNotInverted(daysToDeadline) == Min(daysToDeadline, SaturationDays)

\* deadlineScore = 1 - Math.min(daysToDeadline / 30, 1), in thirtieths.
DeadlineScore(daysToDeadline) == SaturationDays - Min(daysToDeadline, SaturationDays)

\* The weight score without its cap.
WeightScoreUncapped(kg) == kg

\* weightScore = Math.min(kg / 3000, 1), in three-thousandths.
WeightScore(kg) == Min(kg, SaturationKg)

\* Math.round of the fraction num / den (den > 0): halves go up.
Round(num, den) == (2 * num + den) \div (2 * den)

\* Math.round((0.4 * ageScore + 0.4 * deadlineScore + 0.2 * weightScore) * 100):
\* over the common denominator 3000 the sum is
\* (4000 * ageScore30 + 4000 * deadlineScore30 + 20 * weightScore3000) / 3000.
calculatePriority(planDate, requestedAt, deadlineAt, kg) ==
  Round(4000 * AgeScore(AgeDays(planDate, requestedAt))
          + 4000 * DeadlineScore(DaysToDeadline(planDate, deadlineAt))
          + 20 * WeightScore(kg),
        SaturationKg)

\* normalizeAlbRec(item), called at planDate = new Date(), returns.
NormalizeAlbRec(p, item, planDate) ==
  /\ procs[p].pc = "idle"
  /\ Goto(p, [Idle EXCEPT !.pc = "normalized", !.op = "normalizeAlbRec",
                          !.item = item, !.planDate = planDate,
                          !.priority = calculatePriority(planDate, item.requestedAt,
                                                         item.deadlineAt, item.kg)])
  /\ UNCHANGED <<demands, tours>>

\* The caller drops the normalized record.
NormalizeDone(p) ==
  /\ procs[p].pc = "normalized"
  /\ Goto(p, Idle)
  /\ UNCHANGED <<demands, tours>>

\* ------------------------------------------------------------------- Init
InitQuantities == {1500, 2000}
InitPriorities == {10, 80}
StartLatitudes == {0, 2}
ValidLatitudes == {2}

Tires(hs, s, hm, m) == [hasSmall |-> hs, smallTires |-> s, hasMedium |-> hm, mediumTires |-> m]

\* Request bodies of completeStop and partialStop: a missing count, a negative
\* count, three small tires and one medium tire.
ValidTireInputs == {Tires(TRUE, 3, TRUE, 1)}
TireInputs == {Tires(FALSE, 0, TRUE, 1), Tires(TRUE, -1, TRUE, 1)} \cup ValidTireInputs

\* notReadyStop reads no tire counts.
TireInputsOf(op, tireInputs) == IF op = "notReadyStop" THEN {NoTires} ELSE tireInputs

StopIdInputs == {<<t, i>> : t \in 1..MaxTours, i \in 1..NumDemands}

\* The Demand collection as the feed sync leaves it: every demand NEW and
\* unassigned, with coordinates and a positive quantity.
InitDemands(lats, quantities, priorities) ==
  [Demands -> [status : {"NEW"},
               estadoCod : {"EN_CURSO"},
               assigned : {NoAssigned},
               hasGeo : {TRUE},
               geo : [lat : lats, lng : {Meridian}],
               qtyEstimatedKg : quantities,
               priority : priorities,
               deadlineAt : {30}]]

InitRest ==
  /\ tours = <<>>
  /\ procs = [p \in Procs |-> Idle]
  /\ resp = NoResp
  /\ started = 0
  /\ users = [u \in Users |-> NewUser]
  /\ signed = 0

\* Concurrent requests start from demands one degree north of the drivers, of
\* every mix of quantities, the odd demands of low priority.
Init ==
  /\ demands \in {ds \in InitDemands({3}, InitQuantities, InitPriorities) :
                    \A d \in Demands :
                      ds[d].priority = IF d % 2 = 1 THEN 10 ELSE 80}
  /\ InitRest

\* Sequential requests start from every mix of quantities and priorities, of
\* demands with a latitude and demands stored without one.
SeqInit ==
  /\ demands \in InitDemands({0, 3}, InitQuantities, InitPriorities)
  /\ InitRest

\* The coordinates given to the builder: points of the meridian, and points
\* with a component 0.
BuildLatitudes == {0, 2, 3}
BuildLongitudes == {0, 1} \cup Longitudes
BuildCoordinates ==
  {g \in [lat : BuildLatitudes, lng : BuildLongitudes] :
     g.lng = Meridian \/ Falsy(g.lat) \/ Falsy(g.lng)}
BuildCapacities == {CapacityOf(drv) : drv \in Drivers}

\* Pools around the iteration ceiling, within the page size of the pool
\* fetch: demands of one small tire or of a few, all at one place, that fit a
\* truck all together or fill it before the ceiling.
LightQuantities == {9, 32, 40}
LongPoolLengths == {MAX_ITERATIONS - 1, MAX_ITERATIONS, MAX_ITERATIONS + 1, MAX_ITERATIONS + 20}
LongPools ==
  {[i \in 1..n |-> [id |-> i, qtyEstimatedKg |-> kg,
                     geo |-> [lat |-> 3, lng |-> Meridian], priority |-> 10]] :
     n \in LongPoolLengths, kg \in LightQuantities}

\* The builder is given pools of every mix of coordinates, quantities and
\* priorities.
BuildInit ==
  /\ demands \in [Demands -> [status : {"NEW"},
                               estadoCod : {"EN_CURSO"},
                               assigned : {NoAssigned},
                               hasGeo : {TRUE},
                               geo : BuildCoordinates,
                               qtyEstimatedKg : InitQuantities,
                               priority : InitPriorities,
                               deadlineAt : {30}]]
  /\ InitRest

\* ------------------------------------------------------------------- Next
\* The tour and stop ids of the requests: those of stored tours and stops when
\* the requests are well-addressed, else every id of the model.
TourIdInputs(wellAddressed) == IF wellAddressed THEN TourIds ELSE 1..MaxTours

StopIdInputsOf(wellAddressed, tourId) ==
  IF wellAddressed
    THEN {tours[tourId].stops[i].id : i \in 1..Len(tours[tourId].stops)}
    ELSE StopIdInputs

\* The longitudes of the requests: a request that may come without its
\* latitude may come without its longitude.
StartLongitudes(lats) == IF 0 \in lats THEN {0, Meridian} ELSE {Meridian}

\* The steps of the request in slot p, its inputs drawn from the given start
\* latitudes, tire counts and ids.
Step(p, lats, tireInputs, wellAddressed) ==
  \/ \E drv \in Drivers, lat \in lats, lng \in StartLongitudes(lats), date \in Dates :
       RequestTourFindOne(p, drv, lat, lng, date)
  \/ RequestTourCount(p)
  \/ RequestTourFind(p)
  \/ RequestTourCreate(p)
  \/ RequestTourUpdate(p)
  \/ RequestTourRespond(p)
  \/ \E tourId \in TourIdInputs(wellAddressed) : StartTourLoad(p, tourId)
  \/ StartTourSave(p)
  \/ \E op \in StopOps, tourId \in TourIdInputs(wellAddressed) :
       \E stopId \in StopIdInputsOf(wellAddressed, tourId), tires \in TireInputsOf(op, tireInputs) : StopLoad(p, op, tourId, stopId, tires)
  \/ StopUpdateDemand(p)
  \/ StopSave(p)

\* Concurrent requests: the handlers interleave at their awaits.  The requests
\* are well-formed and name stored tours and stops: a request that fails
\* validation, or whose ids do not resolve, is answered in one step that
\* writes nothing.
ConcNext == \E p \in Procs : Step(p, ValidLatitudes, ValidTireInputs, TRUE)

ConcSpec == Init /\ [][ConcNext]_vars

\* Concurrent requests, any of which may die at an await.
Next == \E p \in Procs : Step(p, ValidLatitudes, ValidTireInputs, TRUE) \/ Crash(p)

Spec == Init /\ [][Next]_vars

\* Requests served one after the other, each run to completion (one slot
\* serves them all), with well-formed and malformed request bodies and with
\* ids that do not resolve.
SeqNext == Step(1, StartLatitudes, TireInputs, FALSE)

SeqSpec == SeqInit /\ [][SeqNext]_vars

\* The builder called on its own, on every arrangement of the pool, from every
\* start and with every capacity of the fleet.
BuildNext ==
  \/ \E order \in Arrangements(Demands), start \in BuildCoordinates,
        capacityKg \in BuildCapacities :
       BuildGreedyTourCall(1, order, start, capacityKg)
  \/ BuildGreedyTourDone(1)

BuildSpec == BuildInit /\ [][BuildNext]_vars

\* The builder called on long pools of light demands; the stored demands play
\* no part in these calls.
LongBuildInit ==
  /\ demands \in InitDemands({3}, {1500}, {10})
  /\ InitRest

LongBuildNext ==
  \/ \E pool \in LongPools, start \in BuildCoordinates, capacityKg \in BuildCapacities :
       BuildGreedyTourCallLong(1, pool, start, capacityKg)
  \/ BuildGreedyTourDone(1)

LongBuildSpec == LongBuildInit /\ [][LongBuildNext]_vars

\* The feed records scored: quantities from none to above the saturation,
\* request dates missing, old, recent and in the future, deadlines missing,
\* overdue, near, far and beyond the saturation, at two as-of times.  With
\* whole days and quantities that are multiples of 500 kg no score falls on a
\* half, so the rounding does not depend on the last bit of the floating sum.
ItemQuantities == {0, 1500, 3000, 3500}
ItemRequestDates == {NoDate, 5, 38, 50}
ItemDeadlines == {NoDate, 30, 42, 60, 90}
PlanDates == {40, 45}
Items == [kg : ItemQuantities, requestedAt : ItemRequestDates, deadlineAt : ItemDeadlines]

PriorityInit ==
  /\ demands \in InitDemands({3}, {1500}, {10})
  /\ InitRest

\* The score computed on its own, by two callers side by side.
Scorers == {p \in Procs : p <= 2}

PriorityNext ==
  \E p \in Scorers :
    \/ \E item \in Items, planDate \in PlanDates : NormalizeAlbRec(p, item, planDate)
    \/ NormalizeDone(p)

PrioritySpec == PriorityInit /\ [][PriorityNext]_vars

\* ------------------------------------------------------------------ claims
Stops(t) == 1..Len(tours[t].stops)

ToursWith(d) == {t \in TourIds : \E i \in Stops(t) : tours[t].stops[i].demand = d}

Assigned(d) == demands[d].assigned.driverId # 0

StopTransitionInFlight(t) ==
  \E p \in Procs : procs[p].op \in StopOps /\ procs[p].tourId = t

Unactioned(t) == \A i \in Stops(t) : tours[t].stops[i].status = "SCHEDULED"

Terminal(status) == status \in {"COMPLETED", "PARTIAL", "NOT_READY"}

\* C1: no demand is a stop of two tours, however concurrent requestTour calls
\* interleave.
C1_NoDemandInTwoTours == \A d \in Demands : Cardinality(ToursWith(d)) <= 1

\* C2: tour creation and demand assignment are atomic: every stop of a stored
\* tour on which no stop transition has been made or is under way has its
\* demand SCHEDULED and assigned to that tour, and every assignment names a
\* stored tour.
C2_TourAndAssignmentAtomic ==
  /\ \A t \in TourIds :
       (Unactioned(t) /\ ~StopTransitionInFlight(t)) =>
         \A i \in Stops(t) :
           /\ demands[tours[t].stops[i].demand].status = "SCHEDULED"
           /\ demands[tours[t].stops[i].demand].assigned.tourId = t
  /\ \A d \in Demands : Assigned(d) => demands[d].assigned.tourId \in TourIds

\* C3: with the requests served one after the other, a tour is COMPLETED if
\* and only if every one of its stops is COMPLETED, PARTIAL or NOT_READY.
C3_CompletedIffAllTerminal ==
  \A t \in TourIds :
    (tours[t].status = "COMPLETED") <=>
      (\A i \in Stops(t) : Terminal(tours[t].stops[i].status))

\* C3 witness: a tour of two stops has been COMPLETED by stop transitions
\* that are not all completeStop.
C3_Witness ==
  \E t \in TourIds :
    /\ tours[t].status = "COMPLETED"
    /\ Len(tours[t].stops) = 2
    /\ \E i \in Stops(t) : tours[t].stops[i].status \in {"PARTIAL", "NOT_READY"}

\* C4: when the save of a stop transition leaves every stop of its tour
\* terminal and no other stop transition on the tour is under way, the tour is
\* COMPLETED, however the stop transitions interleaved.
C4_CompletedOnceAllTerminal ==
  [][\A p \in Procs :
       (/\ StopSave(p)
        /\ \A i \in 1..Len(tours'[procs[p].tourId].stops) :
             Terminal(tours'[procs[p].tourId].stops[i].status)
        /\ \A q \in Procs \ {p} :
             ~(procs[q].op \in StopOps /\ procs[q].tourId = procs[p].tourId))
       => tours'[procs[p].tourId].status = "COMPLETED"]_vars

\* C5: with the requests served one after the other, a requestTour call for a
\* driver and date that have a tour with no stop actioned answers with that
\* tour and reused = true, and writes no tour and no demand.
C5_RetryReusesTour ==
  [][\A p \in Procs, drv \in Drivers, date \in Dates, t \in TourIds :
       (/\ \E lat \in ValidLatitudes : RequestTourFindOne(p, drv, lat, Meridian, date)
        /\ tours[t].driver = drv
        /\ tours[t].date = date
        /\ Unactioned(t))
       => /\ resp'.code = 200
          /\ resp'.reused
          /\ resp'.tourId = t
          /\ procs'[p].pc = "idle"
          /\ tours' = tours
          /\ demands' = demands]_vars

\* C5 witness: a retry after startTour has been answered with the started
\* tour, none of whose stops is actioned.
C5_Witness ==
  /\ resp.op = "requestTour"
  /\ resp.reused
  /\ resp.tourId \in TourIds
  /\ tours[resp.tourId].status = "IN_PROGRESS"
  /\ Unactioned(resp.tourId)

\* C6: a demand released by notReadyStop (NOT_READY, assignment cleared) is
\* in the eligible pool of the next requestTour.
C6_ReleasedDemandEligible ==
  \A d \in Demands :
    (demands[d].status = "NOT_READY" /\ ~Assigned(d)) => Eligible(d)

\* C7 as stated: a demand has an assignment record if and only if its status
\* is SCHEDULED or IN_PROGRESS.
C7_AssignedIffScheduled ==
  \A d \in Demands : Assigned(d) <=> demands[d].status \in {"SCHEDULED", "IN_PROGRESS"}

\* C7 amended: a demand whose status is SCHEDULED or IN_PROGRESS has an
\* assignment record, and a demand with an assignment record is SCHEDULED,
\* IN_PROGRESS, COMPLETED or PARTIAL.
C7_AssignmentConsistent ==
  \A d \in Demands :
    /\ demands[d].status \in {"SCHEDULED", "IN_PROGRESS"} => Assigned(d)
    /\ Assigned(d) =>
         demands[d].status \in {"SCHEDULED", "IN_PROGRESS", "COMPLETED", "PARTIAL"}

\* C7 witness: completeStop has completed a demand, which keeps its assignment,
\* and notReadyStop has released another.
C7_Witness ==
  /\ \E d \in Demands : demands[d].status = "COMPLETED" /\ Assigned(d)
  /\ \E d \in Demands : demands[d].status = "NOT_READY" /\ ~Assigned(d)

\* C8: completeStop and partialStop on a stop that is already COMPLETED,
\* PARTIAL or NOT_READY are answered with an InvalidState error (a 400) and
\* write nothing.
C8_TerminalStopRejected ==
  [][\A p \in Procs, op \in {"completeStop", "partialStop"}, t \in TourIds,
        i \in 1..NumDemands, tires \in ValidTireInputs :
       (/\ i \in Stops(t)
        /\ Terminal(tours[t].stops[i].status)
        /\ StopLoad(p, op, t, tours[t].stops[i].id, tires))
       => /\ resp'.code = 400
          /\ procs'[p].pc = "idle"
          /\ tours' = tours
          /\ demands' = demands]_vars

\* C9: the planned quantities of the stops of every stored tour add up to at
\* most the capacity the tour was built for.
C9_PlannedWithinCapacity ==
  \A t \in TourIds :
    SumSeq([i \in Stops(t) |-> tours[t].stops[i].plannedKg], 1) <= tours[t].capacityKg

\* C9 witness: a tour has been stored that left out a demand of the pool
\* because it is heavier than the capacity that remained.
C9_Witness ==
  \E t \in TourIds, d \in Demands :
    /\ ToursWith(d) = {}
    /\ demands[d].status = "NEW"
    /\ tours[t].stops # <<>>
    /\ demands[d].qtyEstimatedKg <= tours[t].capacityKg
    /\ demands[d].qtyEstimatedKg >
         tours[t].capacityKg - SumSeq([i \in Stops(t) |-> tours[t].stops[i].plannedKg], 1)

\* C10: the order values of the stops of every stored tour are 1..N in the
\* order of selection, in every state (startTour and the stop transitions
\* included).
C10_DenseStopOrder ==
  /\ \A t \in TourIds : \A i \in Stops(t) : tours[t].stops[i].order = i
  /\ \A p \in Procs :
       procs[p].pc \in {"rt_update", "rt_respond"} =>
         /\ Len(tours[procs[p].tourId].stops) = Len(procs[p].built.selected)
         /\ \A i \in Stops(procs[p].tourId) :
              tours[procs[p].tourId].stops[i].demand = procs[p].built.selected[i].demand.id

\* C10 witness: a tour of two stops has been started and its second stop has
\* gone through a stop transition.
C10_Witness ==
  \E t \in TourIds :
    /\ Len(tours[t].stops) = 2
    /\ tours[t].stops[2].status # "SCHEDULED"
    /\ tours[t].stops[2].order = 2

\* The pool of the builder call in slot p, as (id, quantity, lat, lng, priority).
PoolOf(p) ==
  [i \in 1..Len(procs[p].pool) |->
     <<procs[p].pool[i].id, procs[p].pool[i].qtyEstimatedKg,
       procs[p].pool[i].geo.lat, procs[p].pool[i].geo.lng, procs[p].pool[i].priority>>]

\* C11: for the pool [{id 1, 2000 kg, (0,0), priority 80}, {id 2, 1500 kg,
\* (0,1), priority 10}], capacity 3200 and start (0,0), the builder returns
\* exactly one stop, for demand 1, and remaining capacity 1200.
C11_ExampleOneStop ==
  \A p \in Procs :
    (/\ procs[p].pc = "built"
     /\ PoolOf(p) = << <<1, 2000, 0, 0, 80>>, <<2, 1500, 0, 1, 10>> >>
     /\ procs[p].capacityKg = 3200
     /\ procs[p].start = [lat |-> 0, lng |-> 0])
    => /\ Len(procs[p].built.selected) = 1
       /\ procs[p].built.selected[1].demand.id = 1
       /\ procs[p].built.remainingCapacityKg = 1200

\* C12: demand status mirrors stop status in every reachable state, the states
\* between the two writes of one operation included: the demand of a stop has
\* the status of the stop, and the demand of a NOT_READY stop has no assignment.
C12_DemandMirrorsStop ==
  \A t \in TourIds : \A i \in Stops(t) :
    /\ demands[tours[t].stops[i].demand].status = tours[t].stops[i].status
    /\ tours[t].stops[i].status = "NOT_READY" => ~Assigned(tours[t].stops[i].demand)

\* C13: COMPLETED is terminal for a demand: no step of a core operation
\* changes the status or the assignment record of a demand that is COMPLETED.
C13_CompletedDemandStays ==
  [][\A d \in Demands :
       demands[d].status = "COMPLETED" =>
         /\ demands'[d].status = "COMPLETED"
         /\ demands'[d].assigned = demands[d].assigned]_vars

\* The demands of the stops of a tour document.
DemandsOf(t) == {t.stops[i].demand : i \in 1..Len(t.stops)}

\* C14: a demand that is COMPLETED or PARTIAL when requestTour fetches its pool
\* is not among the demands the request selects, and the tour the request
\* then creates has exactly the selected demands as its stops.
C14_DoneDemandNotSelected ==
  [][\A p \in Procs :
       /\ RequestTourFind(p) =>
            \A d \in SelectedIds(procs'[p].built) :
              demands[d].status \notin {"COMPLETED", "PARTIAL"}
       /\ RequestTourCreate(p) =>
            DemandsOf(tours'[Len(tours')]) = SelectedIds(procs[p].built)]_vars

\* C14 witness: a request has selected the stops of a new tour from a pool
\* fetched while another demand was COMPLETED or PARTIAL.
C14_Witness ==
  \E p \in Procs, d \in Demands :
    /\ procs[p].pc = "rt_create"
    /\ demands[d].status \in {"COMPLETED", "PARTIAL"}
    /\ SelectedIds(procs[p].built) # {}
    /\ d \notin SelectedIds(procs[p].built)

\* C15: startTour on a tour that is not PLANNED answers 400 and writes
\* nothing; on a PLANNED tour it goes on to its save, which sets the tour to
\* IN_PROGRESS, changes nothing else and answers 200.
C15_StartOnlyFromPlanned ==
  [][\A p \in Procs :
       /\ \A t \in TourIds :
            StartTourLoad(p, t) =>
              /\ tours' = tours
              /\ demands' = demands
              /\ IF tours[t].status = "PLANNED"
                   THEN procs'[p].pc = "start_save"
                   ELSE resp'.code = 400 /\ procs'[p].pc = "idle"
       /\ StartTourSave(p) =>
            /\ tours[procs[p].tourId].status = "PLANNED"
            /\ tours' = [tours EXCEPT ![procs[p].tourId].status = "IN_PROGRESS"]
            /\ demands' = demands
            /\ resp'.code = 200]_vars

\* C15 witness: startTour has been refused on a tour that is IN_PROGRESS or
\* COMPLETED.
C15_Witness ==
  /\ resp.op = "startTour"
  /\ resp.code = 400
  /\ resp.tourId \in TourIds
  /\ tours[resp.tourId].status \in {"IN_PROGRESS", "COMPLETED"}

\* The request body passes the validation of the stop transition.
BodyAccepted(op, tires) ==
  \/ op = "notReadyStop"
  \/ /\ tires.hasSmall /\ tires.hasMedium
     /\ tires.smallTires >= 0 /\ tires.mediumTires >= 0

\* The tour id names no stored tour, or the stop id no stop of that tour.
Unresolved(tourId, stopId) ==
  \/ tourId \notin TourIds
  \/ \A i \in 1..Len(tours[tourId].stops) : tours[tourId].stops[i].id # stopId

C17_DailyLimit ==
  /\ [](\A drv \in Drivers, date \in Dates :
          Cardinality({t \in TourIds : tours[t].driver = drv /\ tours[t].date = date})
            <= MaxDailyToursOf(drv))
  /\ [][\A p \in Procs :
          (/\ RequestTourCount(p)
           /\ Cardinality({t \in TourIds : /\ tours[t].driver = procs[p].driver
                                            /\ tours[t].date = procs[p].date})
                >= MaxDailyToursOf(procs[p].driver))
          => /\ resp'.code = 200
             /\ resp'.kind = "limit_reached"
             /\ resp'.tourId = 0
             /\ procs'[p].pc = "idle"
             /\ tours' = tours
             /\ demands' = demands]_vars

\* C17 witness: a driver whose only tour of the date is COMPLETED has asked
\* for another and has been answered that the daily limit is reached.
C17_Witness ==
  /\ resp.op = "requestTour"
  /\ resp.kind = "limit_reached"
  /\ \E t \in TourIds : tours[t].status = "COMPLETED"
  /\ \E d \in Demands : demands[d].status = "NEW"

\* C18: every demand that requestTour selects for a new tour has, when the
\* pool is fetched, status NEW or CONFIRMED, no assignment record, a
\* coordinate and a positive quantity; and the tour then created has exactly
\* the selected demands.
C18_SelectedWereEligible ==
  [][\A p \in Procs :
       /\ RequestTourFind(p) =>
            \A d \in SelectedIds(procs'[p].built) :
              /\ demands[d].status \in {"NEW", "CONFIRMED"}
              /\ demands[d].assigned = NoAssigned
              /\ demands[d].hasGeo
              /\ demands[d].geo.lat # 0 /\ demands[d].geo.lng # 0
              /\ demands[d].qtyEstimatedKg > 0
       /\ RequestTourCreate(p) =>
            \A i \in 1..Len(tours'[Len(tours')].stops) :
              tours'[Len(tours')].stops[i].demand = procs[p].built.selected[i].demand.id]_vars

\* C18 witness: a request has selected the stops of a new tour and left out a
\* released (NOT_READY, unassigned) demand that the remaining capacity would
\* have taken.
C18_Witness ==
  \E p \in Procs, d \in Demands :
    /\ procs[p].pc = "rt_create"
    /\ SelectedIds(procs[p].built) # {}
    /\ d \notin SelectedIds(procs[p].built)
    /\ demands[d].status = "NOT_READY"
    /\ demands[d].assigned = NoAssigned
    /\ demands[d].qtyEstimatedKg <= procs[p].built.remainingCapacityKg

Scored(p) == procs[p].pc = "normalized"

C20_PriorityMonotone ==
  \A p, q \in Procs :
    (Scored(p) /\ Scored(q) /\ procs[p].planDate = procs[q].planDate) =>
      LET a == procs[p].item
          b == procs[q].item
      IN /\ (/\ a.requestedAt = b.requestedAt /\ a.deadlineAt = b.deadlineAt
              /\ a.kg <= b.kg)
            => procs[p].priority <= procs[q].priority
         /\ (/\ a.kg = b.kg /\ a.deadlineAt = b.deadlineAt
              /\ a.requestedAt # NoDate /\ b.requestedAt # NoDate
              /\ b.requestedAt <= a.requestedAt)
            => procs[p].priority <= procs[q].priority
         /\ (/\ a.kg = b.kg /\ a.requestedAt = b.requestedAt
              /\ a.deadlineAt # NoDate /\ b.deadlineAt # NoDate
              /\ procs[p].planDate <= b.deadlineAt /\ b.deadlineAt <= a.deadlineAt)
            => procs[p].priority <= procs[q].priority

\* C20 witness: two records scored at the same time differ only in their
\* future deadline, and the one with the closer deadline has the strictly
\* higher score.
C20_Witness ==
  \E p, q \in Procs :
    /\ Scored(p) /\ Scored(q)
    /\ procs[p].planDate = procs[q].planDate
    /\ procs[p].item.kg = procs[q].item.kg
    /\ procs[p].item.requestedAt = procs[q].item.requestedAt
    /\ procs[q].item.deadlineAt # NoDate
    /\ procs[p].planDate <= procs[q].item.deadlineAt
    /\ procs[q].item.deadlineAt < procs[p].item.deadlineAt
    /\ procs[p].priority < procs[q].priority

\* ------------------------------------------------ the build, step by step
\* The build of the call in slot p has returned.
Built(p) == procs[p].pc = "built"

SelectedOf(p) == procs[p].built.selected

\* The index in the pool of the k-th stop selected.
PoolIndex(p, k) ==
  CHOOSE i \in 1..Len(procs[p].pool) : procs[p].pool[i].id = SelectedOf(p)[k].demand.id

\* Before the k-th selection: the candidates used, the capacity left and the
\* current position, recomputed from the stops selected before it.
UsedBefore(p, k) == {SelectedOf(p)[i].demand.id : i \in 1..(k - 1)}

RemainingBefore(p, k) ==
  procs[p].capacityKg
    - SumSeq([i \in 1..(k - 1) |-> SelectedOf(p)[i].demand.qtyEstimatedKg], 1)

PositionBefore(p, k) ==
  IF k = 1 THEN procs[p].start ELSE SelectedOf(p)[k - 1].demand.geo

\* The pool and the start of the call lie on the meridian, where the
\* great-circle distance of two points is R times their difference of latitude.
OnMeridian(p) ==
  /\ procs[p].start.lng = Meridian
  /\ \A i \in 1..Len(procs[p].pool) : procs[p].pool[i].geo.lng = Meridian

GeoDistance(a, b) == MetresPerDegree * Abs(b.lat - a.lat)

\* Candidate i qualifies at the k-th selection: it is unused and its quantity is
\* at most the remaining capacity (every candidate of the pool has a coordinate).
Qualifies(p, k, i) ==
  /\ procs[p].pool[i].id \notin UsedBefore(p, k)
  /\ procs[p].pool[i].qtyEstimatedKg <= RemainingBefore(p, k)

\* distance / (1 + priority / 50) of candidate i is below that of candidate j,
\* from the position before the k-th selection.
ScoreBelow(p, k, i, j) ==
  GeoDistance(PositionBefore(p, k), procs[p].pool[i].geo) * (50 + procs[p].pool[j].priority)
    < GeoDistance(PositionBefore(p, k), procs[p].pool[j].geo) * (50 + procs[p].pool[i].priority)

\* C21: every stop the builder selects is, at its step, a qualifying candidate
\* (unused, with a coordinate, quantity at most the remaining capacity) of
\* minimum score from the current position, and the first such candidate of the
\* pool; for pools and starts on one meridian.
C21_FirstOfMinimumScore ==
  \A p \in Procs :
    (Built(p) /\ OnMeridian(p)) =>
      \A k \in 1..Len(SelectedOf(p)) :
        LET j == PoolIndex(p, k)
        IN /\ Qualifies(p, k, j)
           /\ \A i \in 1..Len(procs[p].pool) :
                Qualifies(p, k, i) =>
                  /\ ~ScoreBelow(p, k, i, j)
                  /\ i < j => ScoreBelow(p, k, j, i)

\* driver.maxStopsPerTour || 8: the driver's maximum stops per tour.
MaxStopsOf(drv) ==
  IF DriverDoc(drv).maxStopsPerTour = 0 THEN DefaultMaxStopsPerTour
  ELSE DriverDoc(drv).maxStopsPerTour

\* C22: every stored tour has at most as many stops as its driver's maximum
\* stops per tour.
C22_AtMostMaxStops ==
  \A t \in TourIds : Len(tours[t].stops) <= MaxStopsOf(tours[t].driver)

\* C23: every build ends: its loop is left after at most 100 iterations, every
\* iteration but the one that leaves the loop has selected one candidate not
\* selected before, and the build returns the stops selected up to there with
\* the capacity they leave.
C23_BuildEnds ==
  \A p \in Procs :
    Built(p) =>
      /\ procs[p].left
      /\ procs[p].iteration <= MAX_ITERATIONS
      /\ Len(SelectedOf(p)) \in {procs[p].iteration - 1, procs[p].iteration}
      /\ \A i, j \in 1..Len(SelectedOf(p)) :
           i # j => SelectedOf(p)[i].demand.id # SelectedOf(p)[j].demand.id
      /\ \A k \in 1..Len(SelectedOf(p)) :
           \E i \in 1..Len(procs[p].pool) : procs[p].pool[i] = SelectedOf(p)[k].demand
      /\ procs[p].built.remainingCapacityKg = RemainingBefore(p, Len(SelectedOf(p)) + 1)

\* C23 witness: a build on a pool of more than 100 candidates has ended at the
\* ceiling, with 100 stops and a candidate left over that fits.
C23_Witness ==
  \E p \in Procs :
    /\ Built(p)
    /\ Len(procs[p].pool) > MAX_ITERATIONS
    /\ procs[p].iteration = MAX_ITERATIONS
    /\ Len(SelectedOf(p)) = MAX_ITERATIONS
    /\ \E i \in 1..Len(procs[p].pool) :
         /\ procs[p].pool[i].id \notin UsedBefore(p, MAX_ITERATIONS + 1)
         /\ 0 < procs[p].pool[i].qtyEstimatedKg
         /\ procs[p].pool[i].qtyEstimatedKg <= procs[p].built.remainingCapacityKg

\* The pool Demand.find returns in the current state is empty, or holds no
\* demand of at most the capacity of the vehicle of driver drv.
NothingFits(drv) ==
  \A d \in Demands : Eligible(d) => demands[d].qtyEstimatedKg > CapacityOf(drv)

\* C24: when requestTour fetches a pool that is empty or holds no demand that
\* fits the vehicle, it answers 200 with a reason and no tour, and writes no
\* tour and no demand.
C24_NothingFitsIsNoTour ==
  [][\A p \in Procs :
       (/\ procs[p].pc = "rt_find"
        /\ NothingFits(procs[p].driver)
        /\ RequestTourFind(p))
       => /\ resp'.code = 200
          /\ resp'.kind \in {"no_eligible_demands", "no_demands_fit"}
          /\ resp'.kind = "no_eligible_demands" <=> (\A d \in Demands : ~Eligible(d))
          /\ resp'.tourId = 0
          /\ procs'[p] = Idle
          /\ tours' = tours
          /\ demands' = demands]_vars

\* C24 witness: with demands left in the pool, none of which fits the vehicle,
\* the request has been answered without a tour.
C24_Witness ==
  /\ resp.op = "requestTour"
  /\ resp.kind = "no_demands_fit"
  /\ \E d \in Demands : Eligible(d)

\* C25: requestTour without its latitude or longitude, and completeStop or
\* partialStop with a tire count missing or negative, are answered 400 in one
\* step that leaves every tour, stop and demand as it was.
C25_InvalidInputRejected ==
  [][\A p \in Procs :
       /\ \A drv \in Drivers, lat \in StartLatitudes, lng \in StartLongitudes(StartLatitudes),
             date \in Dates :
            (/\ procs[p].pc = "idle"
             /\ "requestTour" \in {resp'.op, procs'[p].op}
             /\ Falsy(lat) \/ Falsy(lng)
             /\ RequestTourFindOne(p, drv, lat, lng, date))
            => /\ resp'.code = 400
               /\ procs'[p] = Idle
               /\ tours' = tours
               /\ demands' = demands
       /\ \A op \in {"completeStop", "partialStop"}, tourId \in 1..MaxTours,
             stopId \in StopIdInputs, tires \in TireInputs :
            (/\ procs[p].pc = "idle"
             /\ op \in {resp'.op, procs'[p].op}
             /\ ~BodyAccepted(op, tires)
             /\ StopLoad(p, op, tourId, stopId, tires))
            => /\ resp'.code = 400
               /\ procs'[p] = Idle
               /\ tours' = tours
               /\ demands' = demands]_vars

\* C25 witness: with a tour stored and its demands assigned, a stop transition
\* with a negative count has been answered 400.
C25_Witness ==
  /\ resp.op \in {"completeStop", "partialStop"}
  /\ resp.kind = "tires_negative"
  /\ resp.code = 400
  /\ \E t \in TourIds : \E i \in Stops(t) : Assigned(tours[t].stops[i].demand)

\* C26: a build leaves the objects of the array passed to it as they were at
\* the call, and a builder call writes no tour and no demand.
C26_BuilderIsPure ==
  /\ [](\A p \in Procs : Built(p) => procs[p].argument = procs[p].pool)
  /\ [][\A p \in Procs :
          (procs[p].pc = "idle" /\ procs'[p].pc = "built")
          => (tours' = tours /\ demands' = demands)]_vars

\* C26 witness: a build that has selected two stops, marking two candidates
\* used, has returned.
C26_Witness ==
  \E p \in Procs :
    /\ Built(p)
    /\ Len(SelectedOf(p)) = 2
    /\ Len(procs[p].argument) = 2

\* A coordinate component that is there (a missing one is stored as 0).
Present(x) == x # 0

\* C27: every stop of every stored tour, so of every tour requestTour returns,
\* has a latitude and a longitude, and a finite distance from the previous
\* position.
C27_StopsHaveCoordinates ==
  \A t \in TourIds : \A i \in Stops(t) :
    /\ Present(tours[t].stops[i].geo.lat)
    /\ Present(tours[t].stops[i].geo.lng)
    /\ tours[t].stops[i].distanceFromPrevKm # Infinity
    /\ tours[t].stops[i].distanceFromPrevKm >= 0

\* C27 witness: requestTour has returned a new tour built from a pool that
\* held a demand without a latitude, which would have fitted the vehicle too.
C27_Witness ==
  /\ resp.op = "requestTour" /\ resp.code = 201
  /\ resp.tourId \in TourIds
  /\ \E d \in Demands :
       /\ ~Present(demands[d].geo.lat)
       /\ demands[d].status = "NEW"
       /\ demands[d].qtyEstimatedKg <= tours[resp.tourId].capacityKg - tours[resp.tourId].totalPlannedKg

\* The tours of driver drv on the day, and those of them that are active.
ToursOf(drv, date) == {t \in TourIds : tours[t].driver = drv /\ tours[t].date = date}

ActiveToursOf(drv, date) ==
  {t \in ToursOf(drv, date) : tours[t].status \in {"PLANNED", "IN_PROGRESS"}}

\* The daily limit of driver drv: maxDailyTours, 3 when not set.
DailyLimit(drv) == IF DriverDoc(drv).maxDailyTours = 0 THEN 3 ELSE DriverDoc(drv).maxDailyTours

\* C28: a located requestTour of a driver who has an active tour for the date
\* is answered with that tour and reused = true and writes nothing, whatever
\* the number of the driver's tours for the date, the daily limit reached or not.
C28_ReuseBeforeLimit ==
  [][\A p \in Procs, drv \in Drivers, date \in Dates,
        lat \in StartLatitudes, lng \in StartLongitudes(StartLatitudes) :
       (/\ procs[p].pc = "idle"
        /\ "requestTour" \in {resp'.op, procs'[p].op}
        /\ Present(lat) /\ Present(lng)
        /\ ActiveToursOf(drv, date) # {}
        /\ RequestTourFindOne(p, drv, lat, lng, date))
       => /\ resp'.code = 200
          /\ resp'.kind = "tour"
          /\ resp'.reused
          /\ resp'.tourId \in ActiveToursOf(drv, date)
          /\ procs'[p] = Idle
          /\ tours' = tours
          /\ demands' = demands]_vars

\* C28 witness: a driver whose tours for the date have reached the daily limit
\* has been given the active one of them back.
C28_Witness ==
  /\ resp.op = "requestTour" /\ resp.reused
  /\ resp.tourId \in TourIds
  /\ LET t == tours[resp.tourId]
     IN /\ t.status \in {"PLANNED", "IN_PROGRESS"}
        /\ Cardinality(ToursOf(t.driver, t.date)) >= DailyLimit(t.driver)

\* Driver drv has tours for the date, all of them COMPLETED.
AllCompleted(drv, date) ==
  /\ ToursOf(drv, date) # {}
  /\ \A t \in ToursOf(drv, date) : tours[t].status = "COMPLETED"

\* Demand d is in the pool, has a coordinate and fits the vehicle of driver drv.
Selectable(d, drv) ==
  /\ demands[d].status \in {"NEW", "CONFIRMED"}
  /\ ~Assigned(d)
  /\ Present(demands[d].geo.lat) /\ Present(demands[d].geo.lng)
  /\ 0 < demands[d].qtyEstimatedKg
  /\ demands[d].qtyEstimatedKg <= CapacityOf(drv)

\* C29: a located requestTour of a driver whose tours for the date are all
\* COMPLETED is not answered with one of them; while the daily limit is not
\* reached and a demand of the pool fits the vehicle it goes on to store a new
\* PLANNED tour, and answers 201 with that tour and reused = false.
C29_CompletedNotReused ==
  [][\A p \in Procs :
       /\ \A drv \in Drivers, date \in Dates,
             lat \in StartLatitudes, lng \in StartLongitudes(StartLatitudes) :
            (/\ procs[p].pc = "idle"
             /\ "requestTour" \in {resp'.op, procs'[p].op}
             /\ Present(lat) /\ Present(lng)
             /\ AllCompleted(drv, date)
             /\ RequestTourFindOne(p, drv, lat, lng, date))
            => /\ ~resp'.reused
               /\ procs'[p].pc = "rt_count"
               /\ tours' = tours
       /\ (/\ procs[p].pc = "rt_count"
           /\ AllCompleted(procs[p].driver, procs[p].date)
           /\ Cardinality(ToursOf(procs[p].driver, procs[p].date)) < DailyLimit(procs[p].driver)
           /\ procs'[p] # procs[p])
          => procs'[p].pc = "rt_find"
       /\ (/\ procs[p].pc = "rt_find"
           /\ AllCompleted(procs[p].driver, procs[p].date)
           /\ \E d \in Demands : Selectable(d, procs[p].driver)
           /\ procs'[p] # procs[p])
          => /\ procs'[p].pc = "rt_create"
             /\ Len(procs'[p].built.selected) > 0
       /\ (/\ procs[p].pc = "rt_create"
           /\ procs'[p] # procs[p])
          => /\ Len(tours') = Len(tours) + 1
             /\ tours'[Len(tours')].status = "PLANNED"
             /\ tours'[Len(tours')].driver = procs[p].driver
             /\ procs'[p].tourId = Len(tours')
       /\ (/\ procs[p].pc = "rt_respond"
           /\ procs'[p] # procs[p])
          => /\ resp'.code = 201
             /\ ~resp'.reused
             /\ resp'.tourId = procs[p].tourId
             /\ tours'[resp'.tourId].status = "PLANNED"
             /\ tours'[resp'.tourId].driver = procs[p].driver]_vars

\* C29 witness: a driver whose first tour of the date is COMPLETED has been
\* answered 201 with a second tour, PLANNED and not reused.
C29_Witness ==
  /\ resp.op = "requestTour" /\ resp.code = 201 /\ ~resp.reused
  /\ resp.tourId \in TourIds
  /\ tours[resp.tourId].status = "PLANNED"
  /\ \E t \in TourIds :
       /\ t # resp.tourId
       /\ tours[t].driver = tours[resp.tourId].driver
       /\ tours[t].date = tours[resp.tourId].date
       /\ tours[t].status = "COMPLETED"

\* Candidate i of the pool of slot p is left over by the build: not selected,
\* with both coordinate components, and of a quantity that the capacity
\* remaining at the return holds.
LeftOver(p, i) ==
  /\ procs[p].pool[i].id \notin UsedBefore(p, Len(SelectedOf(p)) + 1)
  /\ Present(procs[p].pool[i].geo.lat) /\ Present(procs[p].pool[i].geo.lng)
  /\ procs[p].pool[i].qtyEstimatedKg <= procs[p].built.remainingCapacityKg

\* C30: a build that has ended below the iteration limit has left no candidate
\* over that is unused, has a coordinate and fits the remaining capacity.
C30_BuildIsMaximal ==
  \A p \in Procs :
    (Built(p) /\ procs[p].iteration < MAX_ITERATIONS) =>
      \A i \in 1..Len(procs[p].pool) : ~LeftOver(p, i)

\* C31: a driver has at most one active (PLANNED or IN_PROGRESS) tour per
\* date, also when two requestTour calls of the driver interleave.
C31_OneActiveTourPerDay ==
  \A drv \in Drivers : \A date \in Dates : Cardinality(ActiveToursOf(drv, date)) <= 1

\* C32: tour status only moves forward along PLANNED, IN_PROGRESS, COMPLETED,
\* in every interleaving of startTour and the stop transitions: a COMPLETED
\* tour stays COMPLETED and an IN_PROGRESS tour never becomes PLANNED again.
C32_StatusMovesForward ==
  [][\A t \in TourIds :
       /\ tours[t].status = "COMPLETED" => tours'[t].status = "COMPLETED"
       /\ tours[t].status = "IN_PROGRESS" => tours'[t].status # "PLANNED"]_vars

\* C33: a PLANNED tour has all its stops SCHEDULED; the save of a stop
\* transition on a stored PLANNED tour leaves it IN_PROGRESS or COMPLETED, and
\* startTour is let through only on a tour whose stops are all SCHEDULED.
C33_PlannedIsUnactioned ==
  /\ [](\A t \in TourIds : tours[t].status = "PLANNED" => Unactioned(t))
  /\ [][\A p \in Procs :
          /\ (procs[p].pc = "st_save" /\ resp'.kind = "stop_saved"
                /\ procs'[p].pc = "idle"
                /\ tours[procs[p].tourId].status = "PLANNED")
               => tours'[procs[p].tourId].status \in {"IN_PROGRESS", "COMPLETED"}
          /\ (procs[p].pc = "idle" /\ procs'[p].pc = "start_save")
               => Unactioned(procs'[p].tourId)]_vars

\* A stop transition has acted on a tour, which is no longer PLANNED, and a
\* startTour on it has been refused.
C33_Witness ==
  /\ resp.op = "startTour" /\ resp.code = 400
  /\ resp.tourId \in TourIds
  /\ ~Unactioned(resp.tourId)
  /\ tours[resp.tourId].status \in {"IN_PROGRESS", "COMPLETED"}

NoDemand ==
  [signusId |-> 0, status |-> "NONE", estadoCod |-> "NONE", assigned |-> NoAssigned,
   hasGeo |-> FALSE, geo |-> [lat |-> 0, lng |-> 0], qtyEstimatedKg |-> 0,
   priority |-> 0, deadlineAt |-> 0]

\* The days the sync runs on and the deadlines its records carry.
SyncPlanDates == {0}
FeedDeadlines == {30}

\* The records of the feed: with and without a codigo, a latitude and a
\* quantity; no request date.
FeedCodigos == 0..NumDemands
FeedLatitudes == {0, 3}
FeedQuantities == {0, 1500, 2000}
FeedItems ==
  [codigo : FeedCodigos, latitud : FeedLatitudes, kg : FeedQuantities,
   fechaMaxima : FeedDeadlines]

\* The normalized record with a lifecycle status among its fields.
normalizedWithStatus(item, planDate) ==
  [signusId |-> item.codigo, estadoCod |-> "EN_CURSO",
   geo |-> [lat |-> item.latitud, lng |-> Meridian],
   qtyEstimatedKg |-> item.kg, deadlineAt |-> item.fechaMaxima,
   priority |-> calculatePriority(planDate, NoDate, item.fechaMaxima, item.kg),
   status |-> "NEW", assigned |-> NoAssigned]

\* The record normalizeAlbRec returns: the fields of the feed and the computed
\* priority, no status and no assignment (status NONE and NoAssigned stand for
\* the fields it does not have).
normalized(item, planDate) ==
  [signusId |-> item.codigo, estadoCod |-> "EN_CURSO",
   geo |-> [lat |-> item.latitud, lng |-> Meridian],
   qtyEstimatedKg |-> item.kg, deadlineAt |-> item.fechaMaxima,
   priority |-> calculatePriority(planDate, NoDate, item.fechaMaxima, item.kg),
   status |-> "NONE", assigned |-> NoAssigned]

\* $set: rec applied to a stored document: the fields of rec replace the
\* document's, the other fields stay.
SetFields(doc, rec) ==
  [doc EXCEPT !.signusId = rec.signusId, !.estadoCod = rec.estadoCod,
              !.hasGeo = TRUE, !.geo = rec.geo,
              !.qtyEstimatedKg = rec.qtyEstimatedKg, !.deadlineAt = rec.deadlineAt,
              !.priority = rec.priority,
              !.status = IF rec.status = "NONE" THEN @ ELSE rec.status,
              !.assigned = IF rec.status = "NONE" THEN @ ELSE rec.assigned]

\* The document an upsert inserts: the schema defaults (status NEW, no
\* assignment) and the fields of rec.
Inserted(rec) ==
  SetFields([NoDemand EXCEPT !.status = "NEW", !.assigned = NoAssigned], rec)

\* The filter matching no document, so that every upsert inserts.
MatchingNone(signusId) == {}

\* The documents the filter { signusId } matches.
Matching(signusId) == {d \in Demands : demands[d].signusId = signusId}

FreeSlots == {d \in Demands : demands[d].signusId = 0}

\* The records upsertDemandsFromAlbRecs skips: no codigo, a coordinate
\* missing, no weight.
Skipped(item, planDate) ==
  \/ Falsy(item.codigo)
  \/ Falsy(normalized(item, planDate).geo.lat)
  \/ Falsy(normalized(item, planDate).geo.lng)
  \/ Falsy(normalized(item, planDate).qtyEstimatedKg)
  \/ normalized(item, planDate).qtyEstimatedKg <= 0

\* One turn of the loop of upsertDemandsFromAlbRecs: the record is skipped,
\* or Demand.findOneAndUpdate({signusId}, {$set: normalized}, {upsert: true}).
UpsertDemand(item, planDate) ==
  /\ ~Skipped(item, planDate)
  /\ LET rec == normalized(item, planDate)
         found == Matching(rec.signusId)
     IN IF found # {}
          THEN \E d \in found : demands' = [demands EXCEPT ![d] = SetFields(@, rec)]
          ELSE /\ FreeSlots # {}
               /\ LET d == CHOOSE f \in FreeSlots : \A g \in FreeSlots : f <= g
                  IN demands' = [demands EXCEPT ![d] = Inserted(rec)]
  /\ UNCHANGED <<tours, procs, resp, started, users, signed>>

\* A skipped record writes nothing.
SkipItem(item, planDate) ==
  /\ Skipped(item, planDate)
  /\ UNCHANGED vars

\* The sync starts from a collection with one synced demand, one degree north
\* of the drivers.
SyncInit ==
  /\ demands = [d \in Demands |->
                  IF d = 1
                    THEN Inserted(normalized([codigo |-> 1, latitud |-> 3, kg |-> 1500,
                                              fechaMaxima |-> 30], 0))
                  ELSE NoDemand]
  /\ InitRest

\* The feed sync running next to the requests of one slot: its upserts fall
\* between any two database operations of a handler.
SyncNext ==
  \/ Step(1, ValidLatitudes, ValidTireInputs, TRUE)
  \/ \E item \in FeedItems, planDate \in SyncPlanDates : UpsertDemand(item, planDate)
  \/ \E item \in FeedItems, planDate \in SyncPlanDates : SkipItem(item, planDate)

SyncSpec == SyncInit /\ [][SyncNext]_vars

\* The stored documents with external id k.
WithSignusId(k) == {d \in Demands : demands[d].signusId = k}

\* A step of the sync: it writes a demand and no request moves.
SyncStep == demands' # demands /\ procs' = procs

\* C35: an upsert of the feed sync leaves the status and the assignment of
\* every stored demand as they were, in any interleaving with requestTour and
\* the stop transitions; a record with a new external id creates a demand with
\* status NEW and no assignment; no two demands share an external id.
C35_SyncKeepsLifecycle ==
  /\ [](\A k \in 1..NumDemands : Cardinality(WithSignusId(k)) <= 1)
  /\ [][SyncStep =>
          \A d \in Demands :
            IF demands[d].signusId # 0
              THEN /\ demands'[d].status = demands[d].status
                   /\ demands'[d].assigned = demands[d].assigned
                   /\ demands'[d].signusId = demands[d].signusId
              ELSE demands'[d].signusId # 0 =>
                     /\ demands'[d].status = "NEW"
                     /\ demands'[d].assigned = NoAssigned]_vars

\* The sync has rewritten the quantity of a demand that is SCHEDULED on a tour
\* and has created a second demand, which is NEW.
C35_Witness ==
  /\ \E t \in TourIds : \E i \in Stops(t) :
       LET d == tours[t].stops[i].demand
       IN /\ demands[d].status = "SCHEDULED" /\ Assigned(d)
          /\ demands[d].qtyEstimatedKg # tours[t].stops[i].plannedKg
  /\ \E d \in Demands :
       /\ demands[d].signusId = NumDemands
       /\ demands[d].status = "NEW" /\ ~Assigned(d)

\* ------------------------------------------------ coordinates with a 0
\* Demands stored with a latitude or a longitude of 0 next to demands with
\* both, all of them fitting every vehicle.
ZeroCoordinates ==
  {g \in [lat : {0, 3}, lng : {0, Meridian}] : ~(Falsy(g.lat) /\ Falsy(g.lng))}

ZeroInit ==
  /\ demands \in [Demands -> [status : {"NEW"},
                               estadoCod : {"EN_CURSO"},
                               assigned : {NoAssigned},
                               hasGeo : {TRUE},
                               geo : ZeroCoordinates,
                               qtyEstimatedKg : {1500},
                               priority : {80},
                               deadlineAt : {30}]]
  /\ InitRest

\* Requests served one after the other, with and without a 0 in their
\* location, and the builder called on its own from every start.
ZeroNext ==
  \/ Step(1, StartLatitudes, ValidTireInputs, TRUE)
  \/ \E order \in Arrangements(Demands), start \in BuildCoordinates,
        capacityKg \in BuildCapacities :
       BuildGreedyTourCall(1, order, start, capacityKg)
  \/ BuildGreedyTourDone(1)

ZeroSpec == ZeroInit /\ [][ZeroNext]_vars

PlanDistanceKm(a, b) ==
  IF Falsy(a.lat) \/ Falsy(a.lng) \/ Falsy(b.lat) \/ Falsy(b.lng)
    THEN Infinity
    ELSE MetresPerDegree * Abs(b.lat - a.lat)

\* One pass of remainingDemands.forEach from index i on: the best candidate,
\* given the best found before i.
RECURSIVE PlanFindBest(_, _, _, _, _, _)
PlanFindBest(remainingDemands, assigned, remainingCapacity, currentPos, i, best) ==
  IF i > Len(remainingDemands) THEN best
  ELSE
    LET d == remainingDemands[i]
        dist == PlanDistanceKm(currentPos, [lat |-> d.lat, lng |-> d.lng])
        skip == \/ i \in assigned
                \/ d.kg > remainingCapacity
                \/ Falsy(d.lat) \/ Falsy(d.lng)
                \/ dist = Infinity
        next == IF ~skip /\ ScoreLess(dist, d.priority, best)
                  THEN [idx |-> i, dist |-> dist, priority |-> d.priority]
                  ELSE best
    IN PlanFindBest(remainingDemands, assigned, remainingCapacity, currentPos, i + 1, next)

\* The while (true) loop of one driver: it ends when a pass finds no candidate.
RECURSIVE PlanDriverLoop(_, _)
PlanDriverLoop(remainingDemands, st) ==
  LET best == PlanFindBest(remainingDemands, st.assigned, st.remainingCapacity,
                           st.currentPos, 1, NoBest)
  IN IF best.idx = 0 THEN st
     ELSE
       LET d == remainingDemands[best.idx]
           legDistance == PlanDistanceKm(st.currentPos, [lat |-> d.lat, lng |-> d.lng])
       IN PlanDriverLoop(remainingDemands,
            [assigned |-> st.assigned \cup {best.idx},
             remainingCapacity |-> st.remainingCapacity - d.kg,
             currentPos |-> [lat |-> d.lat, lng |-> d.lng],
             totalDistanceKm |-> st.totalDistanceKm + legDistance,
             stops |-> Append(st.stops,
                         [demandId |-> d.id, kg |-> d.kg, lat |-> d.lat, lng |-> d.lng,
                          order |-> Len(st.stops) + 1,
                          distanceFromPrevKm |-> ToFixed2(legDistance),
                          priority |-> d.priority])])

\* driver.capacityKg || DEFAULT_TRUCK_CAPACITY_KG.
PlanCapacity(driver) ==
  IF Falsy(driver.capacityKg) THEN DEFAULT_TRUCK_CAPACITY_KG ELSE driver.capacityKg

\* The for loop over the drivers from the k-th on: one tour per driver, the
\* assigned flags carried from driver to driver.
RECURSIVE PlanForDrivers(_, _, _, _, _)
PlanForDrivers(drivers, remainingDemands, k, assigned, planned) ==
  IF k > Len(drivers) THEN planned
  ELSE
    LET driver == drivers[k]
        st == PlanDriverLoop(remainingDemands,
                [assigned |-> assigned,
                 remainingCapacity |-> PlanCapacity(driver),
                 currentPos |-> driver.start,
                 totalDistanceKm |-> 0,
                 stops |-> <<>>])
    IN PlanForDrivers(drivers, remainingDemands, k + 1, st.assigned,
         Append(planned,
           [driverId |-> driver.id,
            capacityKg |-> driver.capacityKg,
            date |-> driver.date,
            totalDistanceKm |-> ToFixed2(st.totalDistanceKm),
            totalStops |-> Len(st.stops),
            remainingCapacityKg |-> st.remainingCapacity,
            stops |-> st.stops]))

\* buildGreedyTours(drivers, demands): the tours pushed, in the drivers' order.
buildGreedyTours(drivers, planningDemands) ==
  PlanForDrivers(drivers, planningDemands, 1, {}, <<>>)

\* buildGreedyTours is called and returns; the slot keeps the drivers and the
\* demands passed and the tours returned.
BuildGreedyToursCall(p, drivers, planningDemands) ==
  /\ procs[p].pc = "idle"
  /\ Goto(p, [Idle EXCEPT !.pc = "planned", !.op = "buildGreedyTours",
                          !.argument = drivers, !.pool = planningDemands,
                          !.built = buildGreedyTours(drivers, planningDemands)])
  /\ UNCHANGED <<demands, tours>>

\* The caller has sent the plan.
BuildGreedyToursDone(p) ==
  /\ procs[p].pc = "planned"
  /\ Goto(p, Idle)
  /\ UNCHANGED <<demands, tours>>

\* The planner's drivers: with a vehicle capacity or without one, starting
\* from a home base or depot on the meridian or from one with latitude 0.
PlanStarts == {[lat |-> lat, lng |-> Meridian] : lat \in {0, 2}}
PlanDriverDocs(id) ==
  [id : {id}, capacityKg : {0, 1800}, start : PlanStarts, date : Dates]
PlanDriverLists ==
  UNION {{<<a>> : a \in PlanDriverDocs(1)},
         {<<a, b>> : a \in PlanDriverDocs(1), b \in PlanDriverDocs(2)}}

\* The planning demands of the feed: with and without a latitude, of two
\* weights and two priorities.
PlanDemandDocs(id) ==
  [id : {id}, kg : InitQuantities, lat : {0, 3}, lng : {Meridian}, priority : InitPriorities]
PlanDemandLists ==
  UNION {{<<>>},
         {<<a>> : a \in PlanDemandDocs(1)},
         {<<a, b>> : a \in PlanDemandDocs(1), b \in PlanDemandDocs(2)}}

PlanInit ==
  /\ demands = [d \in Demands |-> NoDemand]
  /\ InitRest

PlanNext ==
  \/ \E drivers \in PlanDriverLists, planningDemands \in PlanDemandLists :
       BuildGreedyToursCall(1, drivers, planningDemands)
  \/ BuildGreedyToursDone(1)

PlanSpec == PlanInit /\ [][PlanNext]_vars

\* The plan returned to slot p, the stops of its k-th tour and their weight.
Planned(p) == procs[p].pc = "planned"

PlanStops(p, k) == procs[p].built[k].stops

PlanKg(p, k) == SumSeq([i \in 1..Len(PlanStops(p, k)) |-> PlanStops(p, k)[i].kg], 1)

PlanCapacityOf(p, k) ==
  IF procs[p].argument[k].capacityKg = 0
    THEN DEFAULT_TRUCK_CAPACITY_KG ELSE procs[p].argument[k].capacityKg

PlanUnassigned(p) ==
  {i \in 1..Len(procs[p].pool) :
     \A k \in 1..Len(procs[p].built) : \A j \in 1..Len(PlanStops(p, k)) :
       PlanStops(p, k)[j].demandId # procs[p].pool[i].id}

\* No demand is a stop twice, in one tour or in two.
C37_NoDemandTwice ==
  \A p \in Procs : Planned(p) =>
    \A k, l \in 1..Len(procs[p].built) :
      \A i \in 1..Len(PlanStops(p, k)), j \in 1..Len(PlanStops(p, l)) :
        PlanStops(p, k)[i].demandId = PlanStops(p, l)[j].demandId => (k = l /\ i = j)

\* The weight of each tour is at most its driver's capacity.
C37_WithinCapacity ==
  \A p \in Procs : Planned(p) =>
    /\ Len(procs[p].built) = Len(procs[p].argument)
    /\ \A k \in 1..Len(procs[p].built) : PlanKg(p, k) <= PlanCapacityOf(p, k)

\* Every demand left unassigned lacks a coordinate or is heavier than what is
\* left of every tour's capacity.
C37_UnassignedDoNotFit ==
  \A p \in Procs : Planned(p) =>
    \A i \in PlanUnassigned(p) :
      \/ procs[p].pool[i].lat = 0 \/ procs[p].pool[i].lng = 0
      \/ \A k \in 1..Len(procs[p].built) :
           procs[p].pool[i].kg > PlanCapacityOf(p, k) - PlanKg(p, k)

\* C37: in the plan buildGreedyTours returns no demand is in the stops of two
\* tours, each tour's total kg is at most its driver's capacity, and every
\* demand left unassigned lacks a coordinate or is heavier than the remaining
\* capacity of every tour.
C37_PlanIsSound ==
  C37_NoDemandTwice /\ C37_WithinCapacity /\ C37_UnassignedDoNotFit

\* ------------------------------------------- saveGreedyTours (plan.service)
\* A write sent without the session: it lands in the collection at once.
WriteOutsideSession(store, view, key, doc) ==
  [store |-> [store EXCEPT ![key] = doc], view |-> [view EXCEPT ![key] = doc]]

\* A write sent with { session } inside the transaction: it lands in the
\* transaction's view and the collection stays as it is until the commit.
WriteInSession(store, view, key, doc) ==
  [store |-> store, view |-> [view EXCEPT ![key] = doc]]

\* The first tour of the plan from the k-th on that has stops ("if
\* (!t.stops.length) continue"), or one past the end.
RECURSIVE NextWithStops(_, _)
NextWithStops(plan, k) ==
  IF k > Len(plan) THEN k
  ELSE IF Len(plan[k].stops) = 0 THEN NextWithStops(plan, k + 1)
  ELSE k

\* The stop pushed onto tourDoc for the stop s of the plan (the schema keeps
\* the fields it declares: kg, lat and lng are not among them).
TourDocStop(tourId, seq, s) ==
  [id |-> <<tourId, seq>>, demand |-> s.demandId, order |-> seq,
   status |-> "SCHEDULED", plannedKg |-> 0, actualKg |-> 0,
   geo |-> [lat |-> 0, lng |-> 0], distanceFromPrevKm |-> s.distanceFromPrevKm]

\* new Tour({...}) with its stops pushed; the pre-save hook computes the totals.
TourDoc(tourId, t) ==
  calculateTotals(
    [driver |-> t.driverId, date |-> t.date, status |-> "PLANNED",
     capacityKg |-> t.capacityKg,
     totalDistanceKm |-> t.totalDistanceKm,
     remainingCapacityKg |-> t.remainingCapacityKg,
     totalPlannedKg |-> 0, totalActualKg |-> 0,
     stops |-> [i \in 1..Len(t.stops) |-> TourDocStop(tourId, i, t.stops[i])]])

\* Validation of tourDoc at save: capacityKg is required.
TourDocValid(t) == ~Falsy(t.capacityKg)

\* The _id of the tourDoc of the k-th tour of the plan: the ids follow those
\* of the stored tours, in the order the tours are saved.
TourDocId(p, k) ==
  Len(procs[p].pool.tours) + 1

\* startSession, startTransaction: the session sees the collections as they
\* are, and the handler goes to the first tour that has stops.
SaveGreedyToursStart(p, plan) ==
  /\ procs[p].pc = "idle"
  /\ Len(tours) + Len(plan) <= MaxTours
  /\ LET k == NextWithStops(plan, 1)
     IN Begin(p, [Idle EXCEPT !.pc = IF k > Len(plan) THEN "sg_commit" ELSE "sg_update",
                               !.op = "saveGreedyTours",
                               !.argument = plan, !.iteration = k, !.stopId = 1,
                               !.loaded = [demands |-> demands, tours |-> tours],
                               !.pool = [demands |-> demands, tours |-> tours]])
  /\ UNCHANGED <<demands, tours>>

\* Demand.updateOne({_id: demandId}, {$set: {status, assigned}}, {session})
\* for the next stop of the current tour.
SaveGreedyToursUpdate(p) ==
  /\ procs[p].pc = "sg_update"
  /\ LET plan == procs[p].argument
         k == procs[p].iteration
         seq == procs[p].stopId
         t == plan[k]
         d == t.stops[seq].demandId
         doc == [procs[p].pool.demands[d] EXCEPT
                   !.status = "SCHEDULED",
                   !.assigned = [driverId |-> t.driverId, tourId |-> TourDocId(p, k),
                                 date |-> t.date]]
         w == WriteInSession(demands, procs[p].pool.demands, d, doc)
     IN /\ demands' = w.store
        /\ Goto(p, [procs[p] EXCEPT
                      !.pool.demands = w.view,
                      !.stopId = IF seq = Len(t.stops) THEN 1 ELSE seq + 1,
                      !.pc = IF seq = Len(t.stops) THEN "sg_save" ELSE "sg_update"])
  /\ UNCHANGED tours

\* tourDoc.save({session}) of a valid tourDoc, then on to the next tour that
\* has stops or to the commit.
SaveGreedyToursSave(p) ==
  /\ procs[p].pc = "sg_save"
  /\ LET plan == procs[p].argument
         k == procs[p].iteration
         next == NextWithStops(plan, k + 1)
     IN /\ TourDocValid(plan[k])
        /\ Goto(p, [procs[p] EXCEPT
                      !.pool.tours = Append(@, TourDoc(TourDocId(p, k), plan[k])),
                      !.iteration = next,
                      !.pc = IF next > Len(plan) THEN "sg_commit" ELSE "sg_update"])
  /\ UNCHANGED <<demands, tours>>

\* commitTransaction: the writes of the session land in the collections
\* together; savedTours is returned.
SaveGreedyToursCommit(p) ==
  /\ procs[p].pc = "sg_commit"
  /\ demands' = procs[p].pool.demands
  /\ tours' = procs[p].pool.tours
  /\ Goto(p, [procs[p] EXCEPT !.pc = "sg_saved"])

\* A demand update or a tour save rejects (the database fails, or tourDoc does
\* not pass validation at save): abortTransaction drops the writes of the
\* session.
SaveGreedyToursAbort(p) ==
  /\ procs[p].pc \in {"sg_update", "sg_save"}
  /\ Goto(p, [procs[p] EXCEPT !.pc = "sg_aborted",
                              !.pool = [demands |-> demands, tours |-> tours]])
  /\ UNCHANGED <<demands, tours>>

\* The caller gets savedTours, or the error thrown again.
SaveGreedyToursDone(p) ==
  /\ procs[p].pc \in {"sg_saved", "sg_aborted"}
  /\ Respond(p, "saveGreedyTours", IF procs[p].pc = "sg_saved" THEN 200 ELSE 500,
             procs[p].pc, FALSE, 0)
  /\ UNCHANGED <<demands, tours>>

\* The planning demands of the stored demands, in the given order.
PlanningDemands(order) ==
  [i \in 1..Len(order) |->
     [id |-> order[i], kg |-> demands[order[i]].qtyEstimatedKg,
      lat |-> demands[order[i]].geo.lat, lng |-> demands[order[i]].geo.lng,
      priority |-> demands[order[i]].priority]]

\* The plans saved are plans buildGreedyTours returns for the stored demands.
SaveInit ==
  /\ demands \in InitDemands({0, 3}, InitQuantities, {80})
  /\ InitRest

SaveNext ==
  \/ \E drivers \in PlanDriverLists, order \in Arrangements(Demands) :
       SaveGreedyToursStart(1, buildGreedyTours(drivers, PlanningDemands(order)))
  \/ SaveGreedyToursUpdate(1)
  \/ SaveGreedyToursSave(1)
  \/ SaveGreedyToursCommit(1)
  \/ SaveGreedyToursAbort(1)
  \/ SaveGreedyToursDone(1)

SaveSpec == SaveInit /\ [][SaveNext]_vars

\* The transaction of slot p is under way or has been aborted.
Uncommitted(p) == procs[p].pc \in {"sg_update", "sg_save", "sg_commit", "sg_aborted"}

\* The tours of the plan of slot p that have stops.
WithStops(p) ==
  {k \in 1..Len(procs[p].argument) : Len(procs[p].argument[k].stops) > 0}

\* The stored tour that holds the k-th tour of the plan of slot p: the tours
\* with stops are stored in the plan's order after the tours stored before.
StoredAs(p, k) ==
  Len(procs[p].loaded.tours) + Cardinality({l \in WithStops(p) : l <= k})

\* C38: until its commit, and after an abort, saveGreedyTours has changed no
\* stored tour and no stored demand; once it has committed, every tour of the
\* plan that has stops is stored, every stop's demand is SCHEDULED and
\* assigned to its tour, and no tour without stops is stored.
C38_AllOrNothing ==
  \A p \in Procs :
    /\ Uncommitted(p) =>
         /\ demands = procs[p].loaded.demands
         /\ tours = procs[p].loaded.tours
    /\ procs[p].pc = "sg_saved" =>
         /\ Len(tours) = Len(procs[p].loaded.tours) + Cardinality(WithStops(p))
         /\ \A k \in WithStops(p) :
              LET t == procs[p].argument[k]
              IN /\ tours[StoredAs(p, k)].driver = t.driverId
                 /\ Len(tours[StoredAs(p, k)].stops) = Len(t.stops)
                 /\ \A i \in 1..Len(t.stops) :
                      /\ tours[StoredAs(p, k)].stops[i].demand = t.stops[i].demandId
                      /\ demands[t.stops[i].demandId].status = "SCHEDULED"
                      /\ demands[t.stops[i].demandId].assigned.tourId = StoredAs(p, k)
                      /\ demands[t.stops[i].demandId].assigned.driverId = t.driverId
    /\ \A t \in TourIds : Len(tours[t].stops) > 0

\* The save of the second tour of a batch has failed after the first tour and
\* the demands of both had been written in the session, and nothing is stored.
C38_Witness ==
  /\ procs[1].pc = "sg_aborted"
  /\ procs[1].iteration = 2
  /\ Cardinality(WithStops(1)) = 2
  /\ tours = <<>>
  /\ \A d \in Demands : demands[d].status = "NEW"

\* ------------------------------------------------- refresh tokens (auth)
\* The refresh tokens are numbered in the order they are signed (two tokens
\* of a user signed in different seconds are different strings); 0 stands
\* for a body without a token, and a number not yet signed for a string that
\* verifyRefreshToken throws on.
MaxTokens == 4

TokenInputs == 0..MaxTokens

\* The handler of slot p ends with a response.
AuthRespond(p, op, code, kind) ==
  /\ resp' = [op |-> op, code |-> code, kind |-> kind, reused |-> FALSE, tourId |-> 0]
  /\ procs' = [procs EXCEPT ![p] = Idle]
  /\ UNCHANGED <<demands, tours, started>>

\* The handler of slot p goes on to its save, with the document it has loaded
\* and the token of its body.
AuthGoto(p, op, pc, u, token) ==
  /\ procs' = [procs EXCEPT ![p] = [Idle EXCEPT !.pc = pc, !.op = op, !.driver = u,
                                                 !.item = token, !.loaded = users[u]]]
  /\ resp' = NoResp
  /\ UNCHANGED <<demands, tours, started>>

\* login: User.findOne and comparePassword; a wrong password is answered 401.
LoginFind(p, u, passwordCorrect) ==
  /\ procs[p].pc = "idle"
  /\ UNCHANGED <<users, signed>>
  /\ IF ~passwordCorrect THEN AuthRespond(p, "login", 401, "invalid_credentials")
     ELSE IF ~users[u].active THEN AuthRespond(p, "login", 403, "inactive")
     ELSE /\ signed < MaxTokens
          /\ AuthGoto(p, "login", "lg_save", u, 0)

\* login: generateTokens, refreshTokens.push, user.save(): the save sends the
\* push as $push and increments the version, whatever the stored version is.
LoginSave(p) ==
  /\ procs[p].pc = "lg_save"
  /\ signed' = signed + 1
  /\ users' = [users EXCEPT ![procs[p].driver] =
                 [@ EXCEPT !.refreshTokens = @ \cup {signed + 1},
                           !.version = @ + 1]]
  /\ AuthRespond(p, "login", 200, "tokens")

\* tokenExists: the token is among the user's stored refresh tokens (and has
\* not expired: the tokens here have not).
TokenExists(user, token) == token \in user.refreshTokens

\* refreshToken: the body is checked, the token verified, the user loaded and
\* the token looked up in the loaded document.
RefreshFind(p, u, token) ==
  /\ procs[p].pc = "idle"
  /\ UNCHANGED <<users, signed>>
  /\ IF Falsy(token) THEN AuthRespond(p, "refreshToken", 400, "token_required")
     ELSE IF token > signed THEN AuthRespond(p, "refreshToken", 401, "invalid_token")
     ELSE IF ~users[u].active THEN AuthRespond(p, "refreshToken", 401, "invalid_token")
     ELSE IF ~TokenExists(users[u], token)
       THEN AuthRespond(p, "refreshToken", 401, "expired_or_invalid")
     ELSE /\ signed < MaxTokens
          /\ AuthGoto(p, "refreshToken", "rf_save", u, token)

\* refreshToken: generateTokens, push of the new token, refreshTokens replaced
\* by the loaded tokens without the old one, user.save().  The save sets the
\* whole array and carries the loaded version in its filter: it fails, and
\* the catch answers 401, when the stored version is no longer the loaded one.
RefreshSave(p) ==
  /\ procs[p].pc = "rf_save"
  /\ signed' = signed + 1
  /\ LET u == procs[p].driver
         local == (procs[p].loaded.refreshTokens \cup {signed + 1}) \ {procs[p].item}
     IN IF users[u].version = procs[p].loaded.version
          THEN /\ users' = [users EXCEPT ![u] = [@ EXCEPT !.refreshTokens = local,
                                                          !.version = @ + 1]]
               /\ AuthRespond(p, "refreshToken", 200, "tokens")
          ELSE /\ users' = users
               /\ AuthRespond(p, "refreshToken", 401, "invalid_token")

\* logout: with a token that verifies, User.updateOne pulls it from the
\* stored array (the version stays); the answer is 200 in every case.
Logout(p, u, token) ==
  /\ procs[p].pc = "idle"
  /\ signed' = signed
  /\ users' = IF Falsy(token) \/ token > signed
                THEN users
                ELSE [users EXCEPT ![u] = [@ EXCEPT !.refreshTokens = @ \ {token}]]
  /\ AuthRespond(p, "logout", 200, "logged_out")

AuthInit ==
  /\ demands = [d \in Demands |-> NoDemand]
  /\ InitRest

\* Concurrent requests of the users' devices: the handlers interleave at
\* their awaits.
AuthNext ==
  \E p \in Procs :
    \/ \E u \in Users, passwordCorrect \in BOOLEAN : LoginFind(p, u, passwordCorrect)
    \/ LoginSave(p)
    \/ \E u \in Users, token \in TokenInputs : RefreshFind(p, u, token)
    \/ RefreshSave(p)
    \/ \E u \in Users, token \in TokenInputs : Logout(p, u, token)

AuthSpec == AuthInit /\ [][AuthNext]_vars

\* The tokens signed so far.
Signed == 1..signed

Stored(u) == users[u].refreshTokens

\* Slot p ends a refresh with new tokens; slot p ends a logout.
RefreshSucceeds(p) ==
  /\ procs[p].pc = "rf_save" /\ procs'[p].pc = "idle"
  /\ resp'.op = "refreshToken" /\ resp'.code = 200

LogsOut(p) == procs[p].pc = "idle" /\ procs'[p].pc = "idle" /\ resp'.op = "logout"

\* C39: a refresh that succeeds with a token takes it out of the user's
\* stored tokens, and a logout with a token does; a token that is signed and
\* no longer stored is never stored again, and a refresh that presents a
\* token that is not stored never succeeds, be it later or concurrent.
C39_SingleUse ==
  [][/\ \A p \in Procs :
          RefreshSucceeds(p) =>
            /\ procs[p].item \in Stored(procs[p].driver)
            /\ procs[p].item \notin users'[procs[p].driver].refreshTokens
     /\ \A u \in Users, token \in Signed :
          /\ (\E p \in Procs : LogsOut(p) /\ Logout(p, u, token))
               => token \notin users'[u].refreshTokens
          /\ token \notin Stored(u) => token \notin users'[u].refreshTokens]_vars

====
